---------------------------- MODULE Spec2Model ----------------------------
(***************************************************************************)
(* Model of the diaper price pipeline: the catalog store protocol          *)
(* (database/db-service.js over database/schema.sql), the get-diapers       *)
(* request handler with its scheduled scraping run                         *)
(* (netlify/functions/get-diapers.js) and the scraper manager's            *)
(* runScrapingJob (server/scrapers).                                       *)
(*                                                                         *)
(* Text is modelled as sequences of one-character strings, so that the     *)
(* regular expressions and substring tests of the code are computed on     *)
(* characters.  Money is modelled exactly: a JavaScript number holding an  *)
(* amount of dollars is the fraction [num, den]; a DECIMAL(p, s) column    *)
(* holds the integer number of 10^-s dollars.                              *)
(***************************************************************************)
EXTENDS Integers, Sequences, FiniteSets, TLC

(***************************************************************************)
(* JavaScript values                                                       *)
(***************************************************************************)
\* null or undefined where the code expects a number (a count, a price).
Null == -1

\* undefined where the code expects a string (a missing property of an item).
Undefined == <<"undefined">>

\* !x of JavaScript on a number or null: null, undefined and 0 are falsy.
FalsyNum(x) == x = Null \/ x = 0

\* !s of JavaScript on a string or undefined: undefined and "" are falsy.
FalsyStr(s) == s = Undefined \/ s = <<>>

(***************************************************************************)
(* Characters and strings                                                  *)
(***************************************************************************)
Digit == {"0", "1", "2", "3", "4", "5", "6", "7", "8", "9"}

LowerCase == <<"a", "b", "c", "d", "e", "f", "g", "h", "i", "j", "k", "l", "m",
               "n", "o", "p", "q", "r", "s", "t", "u", "v", "w", "x", "y", "z">>

UpperCase == <<"A", "B", "C", "D", "E", "F", "G", "H", "I", "J", "K", "L", "M",
               "N", "O", "P", "Q", "R", "S", "T", "U", "V", "W", "X", "Y", "Z">>

Range(f) == {f[i] : i \in DOMAIN f}

Letter == Range(LowerCase) \cup Range(UpperCase)

\* \s of the regular expressions (the titles of the model hold no other blank).
Space == {" "}

Punct == {"(", ")", "[", "]", "-", ".", "&", "'", "~"}

Alphabet == Letter \cup Digit \cup Space \cup Punct

\* \w of the regular expressions, as far as the alphabet goes.
WordChar == Letter \cup Digit

\* String.prototype.toLowerCase on one character.
LowerChar(c) ==
    IF c \in Range(UpperCase)
    THEN LowerCase[CHOOSE i \in DOMAIN UpperCase : UpperCase[i] = c]
    ELSE c

toLowerCase(s) == [i \in DOMAIN s |-> LowerChar(s[i])]

\* s.includes(w)
includes(s, w) ==
    \E i \in 1..(Len(s) - Len(w) + 1) : SubSeq(s, i, i + Len(w) - 1) = w

DigitVal(c) == CHOOSE v \in 0..9 : <<"0", "1", "2", "3", "4", "5", "6", "7", "8", "9">>[v + 1] = c

\* parseInt(ds, 10) on a string of digits.
RECURSIVE parseInt(_)
parseInt(ds) ==
    IF ds = <<>> THEN 0
    ELSE 10 * parseInt(SubSeq(ds, 1, Len(ds) - 1)) + DigitVal(ds[Len(ds)])

(***************************************************************************)
(* Regular expressions: a pattern is a sequence of items, matched with the *)
(* backtracking (leftmost, greedy, first alternative first) semantics of   *)
(* JavaScript's RegExp.  All patterns of the code carry the /i flag and    *)
(* are written in lower case: the subject is folded to lower case.         *)
(***************************************************************************)
Unbounded == 1000

\* A greedy repetition of a character class, min..max times; cap marks the
\* capture group whose text is match[1].
Cls(set, min, max, cap) ==
    [k |-> "cls", set |-> set, min |-> min, max |-> max, cap |-> cap, alts |-> <<>>]

\* Ordered alternatives, each a pattern.
Alt(alts) ==
    [k |-> "alt", set |-> {}, min |-> 0, max |-> 0, cap |-> FALSE, alts |-> alts]

\* (?![set]): the next character is not in set.
Nla(set) ==
    [k |-> "nla", set |-> set, min |-> 0, max |-> 0, cap |-> FALSE, alts |-> <<>>]

\* \b
Wb == [k |-> "wb", set |-> {}, min |-> 0, max |-> 0, cap |-> FALSE, alts |-> <<>>]

\* A literal word.
Lit(w) == [i \in DOMAIN w |-> Cls({w[i]}, 1, 1, FALSE)]

\* X? for a pattern X.
Opt(re) == Alt(<<re, <<>>>>)

Star(set) == Cls(set, 0, Unbounded, FALSE)

Plus(set) == Cls(set, 1, Unbounded, FALSE)

\* (\d+)
CapDigits == Cls(Digit, 1, Unbounded, TRUE)

NoMatch == [ok |-> FALSE, end |-> 0, cap |-> <<>>]

\* How many characters of s from pos on lie in set, at most max.
RECURSIVE RunLength(_, _, _, _)
RunLength(s, pos, set, max) ==
    IF max = 0 \/ pos > Len(s) \/ s[pos] \notin set THEN 0
    ELSE 1 + RunLength(s, pos + 1, set, max - 1)

IsWordAt(s, pos) == pos >= 1 /\ pos <= Len(s) /\ s[pos] \in WordChar

RECURSIVE MatchAt(_, _, _, _)
RECURSIVE TryRep(_, _, _, _, _, _)
RECURSIVE TryAlt(_, _, _, _, _, _)

\* The item h repeated n times at pos, then the rest t; fewer repetitions on
\* failure (greedy backtracking).
TryRep(h, t, s, pos, n, cap) ==
    IF n < h.min THEN NoMatch
    ELSE LET r == MatchAt(t, s, pos + n,
                          IF h.cap THEN SubSeq(s, pos, pos + n - 1) ELSE cap)
         IN  IF r.ok THEN r ELSE TryRep(h, t, s, pos, n - 1, cap)

\* The alternatives alts[i..], each followed by the rest t.
TryAlt(alts, i, t, s, pos, cap) ==
    IF i > Len(alts) THEN NoMatch
    ELSE LET r == MatchAt(alts[i] \o t, s, pos, cap)
         IN  IF r.ok THEN r ELSE TryAlt(alts, i + 1, t, s, pos, cap)

\* The pattern re matched at position pos of s.
MatchAt(re, s, pos, cap) ==
    IF re = <<>> THEN [ok |-> TRUE, end |-> pos, cap |-> cap]
    ELSE LET h == Head(re)
             t == Tail(re)
         IN  CASE h.k = "cls" ->
                    TryRep(h, t, s, pos, RunLength(s, pos, h.set, h.max), cap)
               [] h.k = "alt" -> TryAlt(h.alts, 1, t, s, pos, cap)
               [] h.k = "nla" ->
                    IF pos <= Len(s) /\ s[pos] \in h.set THEN NoMatch
                    ELSE MatchAt(t, s, pos, cap)
               [] h.k = "wb" ->
                    IF IsWordAt(s, pos - 1) # IsWordAt(s, pos)
                    THEN MatchAt(t, s, pos, cap)
                    ELSE NoMatch

\* The leftmost match of re in s, from position from on.
RECURSIVE SearchFrom(_, _, _)
SearchFrom(re, s, from) ==
    IF from > Len(s) + 1 THEN NoMatch
    ELSE LET r == MatchAt(re, s, from, <<>>)
         IN  IF r.ok THEN r ELSE SearchFrom(re, s, from + 1)

\* str.match(re) for a pattern with the /i flag: no match, or match[1].
match(str, re) == SearchFrom(re, toLowerCase(str), 1)

\* str.match(re) for a pattern with the /g flag: the matched texts, in order.
RECURSIVE MatchAllFrom(_, _, _)
MatchAllFrom(re, s, from) ==
    IF from > Len(s) + 1 THEN <<>>
    ELSE LET r == MatchAt(re, s, from, <<>>)
         IN  IF ~r.ok THEN MatchAllFrom(re, s, from + 1)
             ELSE <<SubSeq(s, from, r.end - 1)>>
                  \o MatchAllFrom(re, s, IF r.end > from THEN r.end ELSE from + 1)

(***************************************************************************)
(* extractCount of get-diapers.js                                          *)
(***************************************************************************)
\* The words of the patterns and of the keyword defaults.
w ==
    [count |-> <<"c","o","u","n","t">>,
     ct |-> <<"c","t">>,
     pack |-> <<"p","a","c","k">>,
     pc |-> <<"p","c">>,
     piece |-> <<"p","i","e","c","e">>,
     diaper |-> <<"d","i","a","p","e","r">>,
     size |-> <<"s","i","z","e">>,
     disposable |-> <<"d","i","s","p","o","s","a","b","l","e">>,
     box |-> <<"b","o","x">>,
     case |-> <<"c","a","s","e">>,
     of |-> <<"o","f">>,
     month |-> <<"m","o","n","t","h">>,
     supply |-> <<"s","u","p","p","l","y">>,
     giant |-> <<"g","i","a","n","t">>,
     mega |-> <<"m","e","g","a">>,
     super |-> <<"s","u","p","e","r">>,
     jumbo |-> <<"j","u","m","b","o">>,
     family |-> <<"f","a","m","i","l","y">>,
     economy |-> <<"e","c","o","n","o","m","y">>,
     newborn |-> <<"n","e","w","b","o","r","n">>,
     preemie |-> <<"p","r","e","e","m","i","e">>]

\* x followed by an optional s: pcs?, pieces?, diapers?
OptS(x) == Lit(x) \o <<Opt(Lit(<<"s">>))>>

\* const patterns = [...], in the order of the code.
patterns ==
    << \* /(\d+)\s*(count|ct|pack|pcs?|pieces?|diapers?)(?![\d\.])/i
       <<CapDigits, Star(Space),
         Alt(<<Lit(w.count), Lit(w.ct), Lit(w.pack), OptS(w.pc), OptS(w.piece),
               OptS(w.diaper)>>),
         Nla(Digit \cup {"."})>>,
       \* /size\s*\d+[^\d]*(\d+)\s*(count|ct|pack)/i
       Lit(w.size) \o
       <<Star(Space), Plus(Digit), Star(Alphabet \ Digit), CapDigits, Star(Space),
         Alt(<<Lit(w.count), Lit(w.ct), Lit(w.pack)>>)>>,
       \* /[\(\[]\s*(\d+)\s*(count|ct|pack|pcs?)[\)\]]/i
       <<Cls({"(", "["}, 1, 1, FALSE), Star(Space), CapDigits, Star(Space),
         Alt(<<Lit(w.count), Lit(w.ct), Lit(w.pack), OptS(w.pc)>>),
         Cls({")", "]"}, 1, 1, FALSE)>>,
       \* /-\s*(\d+)\s*(?:ct|count|pack)/i
       <<Cls({"-"}, 1, 1, FALSE), Star(Space), CapDigits, Star(Space),
         Alt(<<Lit(w.ct), Lit(w.count), Lit(w.pack)>>)>>,
       \* /(\d+)\s+(?:disposable\s+)?(?:diapers?|pieces?)/i
       <<CapDigits, Plus(Space), Opt(Lit(w.disposable) \o <<Plus(Space)>>),
         Alt(<<OptS(w.diaper), OptS(w.piece)>>)>>,
       \* /(?:box|case)\s*(?:of\s*)?(\d+)/i
       <<Alt(<<Lit(w.box), Lit(w.case)>>), Star(Space),
         Opt(Lit(w.of) \o <<Star(Space)>>), CapDigits>>,
       \* /month\s+supply[^\d]*(\d+)/i
       Lit(w.month) \o <<Plus(Space)>> \o Lit(w.supply) \o
       <<Star(Alphabet \ Digit), CapDigits>>,
       \* /(?:giant|mega|super|jumbo)\s+pack[^\d]*(\d+)/i
       <<Alt(<<Lit(w.giant), Lit(w.mega), Lit(w.super), Lit(w.jumbo)>>), Plus(Space)>>
       \o Lit(w.pack) \o <<Star(Alphabet \ Digit), CapDigits>> >>

\* The plausible range of a pack count that a pattern yields.
MinCount == 12

MaxCount == 300

\* The range of the fallback scan over the numbers of the title.
MinFallback == 20

\* The keyword defaults.
MegaDefault == 144

JumboDefault == 120

SuperDefault == 96

NewbornDefault == 84

\* A loop that stops at the first pattern that matches, in range or not.
RECURSIVE FirstMatch(_, _)
FirstMatch(name, i) ==
    IF i > Len(patterns) THEN Null
    ELSE LET m == match(name, patterns[i])
             count == parseInt(m.cap)
         IN  IF m.ok
             THEN IF count >= MinCount /\ count <= MaxCount THEN count ELSE Null
             ELSE FirstMatch(name, i + 1)

\* The loop over the patterns from the i-th on: the count of the first pattern
\* that matches with a count in range, or Null.
RECURSIVE TryPatterns(_, _)
TryPatterns(name, i) ==
    IF i > Len(patterns) THEN Null
    ELSE LET m == match(name, patterns[i])
             count == parseInt(m.cap)
         IN  IF m.ok /\ count >= MinCount /\ count <= MaxCount THEN count
             ELSE TryPatterns(name, i + 1)

\* /\b(\d{2,3})\b/g
AllNumbersPattern == <<Wb, Cls(Digit, 2, 3, TRUE), Wb>>

\* The loop over allNumbers: the first number in range, or Null.
RECURSIVE FirstInRange(_)
FirstInRange(nums) ==
    IF nums = <<>> THEN Null
    ELSE LET num == parseInt(Head(nums))
         IN  IF num >= MinFallback /\ num <= MaxCount THEN num
             ELSE FirstInRange(Tail(nums))

\* The keyword defaults on the lower-cased name.
KeywordDefault(nameLower) ==
    IF includes(nameLower, w.mega) \/ includes(nameLower, w.family) THEN MegaDefault
    ELSE IF includes(nameLower, w.jumbo) \/ includes(nameLower, w.giant) THEN JumboDefault
    ELSE IF includes(nameLower, w.super) \/ includes(nameLower, w.economy) THEN SuperDefault
    ELSE IF includes(nameLower, w.newborn) \/ includes(nameLower, w.preemie)
         THEN NewbornDefault
    ELSE Null

extractCount(name) ==
    IF FalsyStr(name) THEN Null
    ELSE LET byPattern == TryPatterns(name, 1)
             byNumber == FirstInRange(MatchAllFrom(AllNumbersPattern, name, 1))
         IN  IF byPattern # Null THEN byPattern
             ELSE IF byNumber # Null THEN byNumber
             ELSE KeywordDefault(toLowerCase(name))

(***************************************************************************)
(* Money                                                                   *)
(***************************************************************************)
\* A JavaScript number holding num/den dollars.
Frac(num, den) == [num |-> num, den |-> den]

\* price / count of JavaScript (the quotient, not rounded).
Div(x, count) == Frac(x.num, x.den * count)

RECURSIVE Pow10(_)
Pow10(n) == IF n = 0 THEN 1 ELSE 10 * Pow10(n - 1)

\* What a DECIMAL(10, scale) column stores for the non-negative number x: x
\* rounded to scale decimal places (half away from zero), as the number of
\* 10^-scale dollars.
Numeric(x, scale) == (2 * x.num * Pow10(scale) + x.den) \div (2 * x.den)

(***************************************************************************)
(* The schema: schema.sql                                                  *)
(***************************************************************************)
\* price DECIMAL(10, 2)
PriceScale == 2

\* price_per_diaper DECIMAL(10, 4)
PerDiaperScale == 4

\* type VARCHAR(200)
TypeMaxLen == 200

\* SCRAPING_INTERVAL of get-diapers.js, in milliseconds (the default).
SCRAPING_INTERVAL == 12 * 60 * 60 * 1000

\* The clock advances by half a scraping interval at a time.
TickStep == SCRAPING_INTERVAL \div 2

StartTime == TickStep

\* The key of the UNIQUE(brand, type, size, retailer) constraint.
KeyOf(r) == <<r.brand, r.type, r.size, r.retailer>>

\* One row of the seed INSERT: price in cents, price_per_diaper in 10^-4
\* dollars, the timestamps defaulting to the time of the INSERT.
SeedRow(id, brand, type, count, retailer, price, ppd, url) ==
    [id |-> id, brand |-> brand, type |-> type, size |-> "3", count |-> count,
     retailer |-> retailer, price |-> price, price_per_diaper |-> ppd, url |-> url,
     in_stock |-> TRUE, created_at |-> StartTime, updated_at |-> StartTime,
     last_scraped |-> StartTime]

\* INSERT INTO diapers ... VALUES of schema.sql (a character outside ASCII is
\* written ~).
SeedRows ==
    <<
       SeedRow(1, <<"P","a","m","p","e","r","s">>,
               <<"B","a","b","y"," ","D","r","y"," ","S","i","z","e"," ","3"," ","(","1","9","8"," ","C","o","u","n","t",")">>,
               198, "Amazon.ca", 5497, 2800,
               <<"https://www.amazon.ca/dp/B07FQRZ8QM">>),
       SeedRow(2, <<"P","a","m","p","e","r","s">>,
               <<"C","r","u","i","s","e","r","s"," ","3","6","0","~"," ","S","i","z","e"," ","3"," ","(","8","4"," ","C","o","u","n","t",")">>,
               84, "Amazon.ca", 2997, 3600,
               <<"https://www.amazon.ca/dp/B08QY6HT97">>),
       SeedRow(3, <<"H","u","g","g","i","e","s">>,
               <<"L","i","t","t","l","e"," ","S","n","u","g","g","l","e","r","s"," ","S","i","z","e"," ","3"," ","(","1","3","2"," ","C","o","u","n","t",")">>,
               132, "Amazon.ca", 4797, 3600,
               <<"https://www.amazon.ca/dp/B07FQRQTGX">>),
       SeedRow(4, <<"H","u","g","g","i","e","s">>,
               <<"O","v","e","r","n","i","t","e","s"," ","S","i","z","e"," ","3"," ","(","6","6"," ","C","o","u","n","t",")">>,
               66, "Amazon.ca", 2697, 4100,
               <<"https://www.amazon.ca/dp/B07G2XN8H7">>),
       SeedRow(5, <<"K","i","r","k","l","a","n","d">>,
               <<"S","i","g","n","a","t","u","r","e"," ","S","i","z","e"," ","3"," ","(","1","9","2"," ","C","o","u","n","t",")">>,
               192, "Costco Canada", 4999, 2600,
               <<"https://www.costco.ca/kirkland-signature-diapers-size-3.product.100506047.html">>),
       SeedRow(6, <<"P","a","m","p","e","r","s">>,
               <<"B","a","b","y"," ","D","r","y"," ","S","i","z","e"," ","3"," ","(","2","4","6"," ","C","o","u","n","t",")">>,
               246, "Costco Canada", 6499, 2600,
               <<"https://www.costco.ca/pampers-baby-dry-size-3.product.100506048.html">>),
       SeedRow(7, <<"P","a","m","p","e","r","s">>,
               <<"C","r","u","i","s","e","r","s"," ","S","i","z","e"," ","3"," ","(","1","4","4"," ","C","o","u","n","t",")">>,
               144, "Walmart.ca", 5297, 3700,
               <<"https://www.walmart.ca/en/ip/pampers-cruisers-diapers-size-3/6000200832288">>),
       SeedRow(8, <<"H","u","g","g","i","e","s">>,
               <<"L","i","t","t","l","e"," ","M","o","v","e","r","s"," ","S","i","z","e"," ","3"," ","(","1","2","0"," ","C","o","u","n","t",")">>,
               120, "Walmart.ca", 4497, 3700,
               <<"https://www.walmart.ca/en/ip/huggies-little-movers-diapers-size-3/6000200832289">>),
       SeedRow(9, <<"S","e","v","e","n","t","h"," ","G","e","n","e","r","a","t","i","o","n">>,
               <<"B","a","b","y"," ","D","i","a","p","e","r","s"," ","S","i","z","e"," ","3"," ","(","8","4"," ","C","o","u","n","t",")">>,
               84, "Well.ca", 3499, 4200,
               <<"https://well.ca/products/seventh-generation-baby-diapers_88234.html">>),
       SeedRow(10, <<"H","o","n","e","s","t">>,
               <<"C","l","u","b"," ","B","o","x"," ","D","i","a","p","e","r","s"," ","S","i","z","e"," ","3"," ","(","9","2"," ","C","o","u","n","t",")">>,
               92, "Well.ca", 3299, 3600,
               <<"https://well.ca/products/honest-club-box-diapers-size-3_134567.html">>),
       SeedRow(11, <<"P","a","m","p","e","r","s">>,
               <<"B","a","b","y"," ","D","r","y"," ","S","i","z","e"," ","3"," ","(","1","2","8"," ","C","o","u","n","t",")">>,
               128, "Canadian Tire", 4299, 3400,
               <<"https://www.canadiantire.ca/en/pdp/pampers-baby-dry-diapers-size-3-0537021p.html">>),
       SeedRow(12, <<"H","u","g","g","i","e","s">>,
               <<"S","n","u","g","g","l","e","r","s"," ","S","i","z","e"," ","3"," ","(","9","6"," ","C","o","u","n","t",")">>,
               96, "Canadian Tire", 3699, 3900,
               <<"https://www.canadiantire.ca/en/pdp/huggies-snugglers-diapers-size-3-0537022p.html">>),
       SeedRow(13, <<"P","a","m","p","e","r","s">>,
               <<"C","r","u","i","s","e","r","s"," ","S","i","z","e"," ","3"," ","(","1","0","4"," ","C","o","u","n","t",")">>,
               104, "Shoppers Drug Mart", 4199, 4000,
               <<"https://www1.shoppersdrugmart.ca/en/health-and-pharmacy/baby-and-kids/pampers-cruisers">>),
       SeedRow(14, <<"H","u","g","g","i","e","s">>,
               <<"L","i","t","t","l","e"," ","S","n","u","g","g","l","e","r","s"," ","S","i","z","e"," ","3"," ","(","8","0"," ","C","o","u","n","t",")">>,
               80, "Shoppers Drug Mart", 3299, 4100,
               <<"https://www1.shoppersdrugmart.ca/en/health-and-pharmacy/baby-and-kids/huggies-little-snugglers">>),
       SeedRow(15, <<"P","r","e","s","i","d","e","n","t","'","s"," ","C","h","o","i","c","e">>,
               <<"U","l","t","r","a"," ","S","o","f","t"," ","D","i","a","p","e","r","s"," ","S","i","z","e"," ","3"," ","(","1","2","0"," ","C","o","u","n","t",")">>,
               120, "Real Canadian Superstore", 2999, 2500,
               <<"https://www.realcanadiansuperstore.ca/presidents-choice-ultra-soft-diapers-size-3/p/20978453_EA">>),
       SeedRow(16, <<"P","a","m","p","e","r","s">>,
               <<"B","a","b","y"," ","D","r","y"," ","S","i","z","e"," ","3"," ","(","1","6","8"," ","C","o","u","n","t",")">>,
               168, "Real Canadian Superstore", 4999, 3000,
               <<"https://www.realcanadiansuperstore.ca/pampers-baby-dry-diapers-size-3/p/20978454_EA">>)
    >>

(***************************************************************************)
(* AmazonScraper (amazon-scraper.js) and BaseScraper (base-scraper.js)     *)
(***************************************************************************)
Pampers == <<"P","a","m","p","e","r","s">>

Huggies == <<"H","u","g","g","i","e","s">>

\* The words of AmazonScraper's patterns and keyword lists.
aw ==
    [nappies |-> <<"n","a","p","p","i","e","s">>, nappy |-> <<"n","a","p","p","y">>, wipes |-> <<"w","i","p","e","s">>,
     swim |-> <<"s","w","i","m">>, training |-> <<"t","r","a","i","n","i","n","g"," ","p","a","n","t","s">>,
     pullup1 |-> <<"p","u","l","l","-","u","p">>, pullup2 |-> <<"p","u","l","l"," ","u","p">>, pullup3 |-> <<"p","u","l","l","u","p">>]

\* \s*-?\s*
Dash == <<Star(Space), Opt(Lit(<<"-">>)), Star(Space)>>

\* const countPatterns = [...] of AmazonScraper.extractCount, in order.
countPatterns ==
    << <<CapDigits>> \o Dash \o Lit(w.count),            \* /(\d+)\s*-?\s*count/i
       Lit(w.count) \o Dash \o <<CapDigits>>,            \* /count\s*-?\s*(\d+)/i
       <<CapDigits>> \o Dash \o Lit(w.ct) \o <<Wb>>,     \* /(\d+)\s*-?\s*ct\b/i
       <<CapDigits>> \o Dash \o Lit(w.piece) \o Lit(<<"s">>),   \* /(\d+)\s*-?\s*pieces/i
       <<CapDigits>> \o Dash \o Lit(w.pack),             \* /(\d+)\s*-?\s*pack/i
       <<CapDigits>> \o Dash \o Lit(aw.nappies),         \* /(\d+)\s*-?\s*nappies/i
       Lit(w.pack) \o <<Star(Space)>> \o Lit(w.of) \o <<Star(Space), CapDigits>>,
       Lit(w.box) \o <<Star(Space)>> \o Lit(w.of) \o <<Star(Space), CapDigits>>,
       Lit(w.case) \o <<Star(Space)>> \o Lit(w.of) \o <<Star(Space), CapDigits>> >>

\* AmazonScraper.extractCount(title): the first pattern that matches with a
\* count above 0.
RECURSIVE AmazonTryPatterns(_, _)
AmazonTryPatterns(title, i) ==
    IF i > Len(countPatterns) THEN Null
    ELSE LET m == match(title, countPatterns[i])
         IN  IF m.ok /\ parseInt(m.cap) > 0 THEN parseInt(m.cap)
             ELSE AmazonTryPatterns(title, i + 1)

AmazonExtractCount(title) ==
    IF FalsyStr(title) THEN Null ELSE AmazonTryPatterns(title, 1)

\* AmazonScraper.isDiaperProduct(title, brand)
isDiaperProduct(title, brand) ==
    LET lowerTitle == toLowerCase(title)
    IN  /\ ~FalsyStr(title)
        /\ includes(lowerTitle, toLowerCase(brand))
        /\ \E k \in {w.diaper, w.diaper \o <<"s">>, aw.nappies, aw.nappy} :
              includes(lowerTitle, k)
        /\ ~\E k \in {aw.wipes, aw.swim, aw.training, aw.pullup1, aw.pullup2, aw.pullup3} :
              includes(lowerTitle, k)

\* const typeMap of AmazonScraper.extractDiaperType: per brand the keywords in
\* the order of the object literal, each with the type's name.
typeMap(lowerBrand) ==
    IF lowerBrand = toLowerCase(Pampers)
    THEN << <<<<"s","w","a","d","d","l","e","r","s">>, <<"S","w","a","d","d","l","e","r","s">>>>,
            <<<<"b","a","b","y"," ","d","r","y">>, <<"B","a","b","y"," ","D","r","y">>>>,
            <<<<"c","r","u","i","s","e","r","s">>, <<"C","r","u","i","s","e","r","s">>>>,
            <<<<"p","u","r","e">>, <<"P","u","r","e">>>> >>
    ELSE IF lowerBrand = toLowerCase(Huggies)
    THEN << <<<<"l","i","t","t","l","e"," ","s","n","u","g","g","l","e","r","s">>,
              <<"L","i","t","t","l","e"," ","S","n","u","g","g","l","e","r","s">>>>,
            <<<<"s","n","u","g"," ","&"," ","d","r","y">>, <<"S","n","u","g"," ","&"," ","D","r","y">>>>,
            <<<<"l","i","t","t","l","e"," ","m","o","v","e","r","s">>,
              <<"L","i","t","t","l","e"," ","M","o","v","e","r","s">>>>,
            <<<<"s","p","e","c","i","a","l"," ","d","e","l","i","v","e","r","y">>,
              <<"S","p","e","c","i","a","l"," ","D","e","l","i","v","e","r","y">>>> >>
    ELSE IF lowerBrand = <<"k","i","r","k","l","a","n","d">>
    THEN << <<<<"s","i","g","n","a","t","u","r","e">>, <<"S","i","g","n","a","t","u","r","e">>>> >>
    ELSE IF lowerBrand = <<"p","a","r","e","n","t","s"," ","c","h","o","i","c","e">>
    THEN << <<<<"p","r","e","m","i","u","m">>, <<"P","r","e","m","i","u","m">>>> >>
    ELSE <<>>

\* AmazonScraper.extractDiaperType(title, brand)
RECURSIVE FirstType(_, _)
FirstType(lowerTitle, entries) ==
    IF entries = <<>> THEN <<"R","e","g","u","l","a","r">>
    ELSE IF includes(lowerTitle, Head(entries)[1]) THEN Head(entries)[2]
    ELSE FirstType(lowerTitle, Tail(entries))

\* An extractDiaperType that looks the keywords up in the title as it is
\* written.
extractDiaperTypeCased(title, brand) ==
    FirstType(title, typeMap(toLowerCase(brand)))

extractDiaperType(title, brand) ==
    FirstType(toLowerCase(title), typeMap(toLowerCase(brand)))

\* BaseScraper.calculatePricePerDiaper(price, count):
\* parseFloat((price / count).toFixed(2))
calculatePricePerDiaper(price, count) ==
    Frac(Numeric(Div(price, count), 2), Pow10(2))

\* The product AmazonScraper.searchDiapers pushes for a result with this
\* ASIN, title and price: it carries no name and no link property.
AmazonProduct(asin, brand, size, title, price, t) ==
    [id |-> asin, brand |-> brand, type |-> extractDiaperType(title, brand),
     size |-> size, count |-> AmazonExtractCount(title), retailer |-> "Amazon.ca",
     price |-> price,
     pricePerDiaper |-> calculatePricePerDiaper(price, AmazonExtractCount(title)),
     url |-> <<"https://www.amazon.ca", "/dp/", asin>>, lastUpdated |-> t,
     name |-> Undefined, link |-> Undefined]

\* The product as get-diapers.js and the scraper reliability test read it:
\* with the title in name and the address in link.
NamedProduct(asin, brand, size, title, price, t) ==
    [AmazonProduct(asin, brand, size, title, price, t) EXCEPT
        !.name = title, !.link = <<"https://www.amazon.ca", "/dp/", asin>>]

\* How many invocations of the handler and how many steps of the clock are
\* explored.
MaxRequests == 2

MaxTicks == 2

(***************************************************************************)
(* State                                                                   *)
(***************************************************************************)
VARIABLES
    now,              \* the clock: Date.now() and CURRENT_TIMESTAMP, in ms
    diapers,          \* the rows of table diapers, in insertion order
    diaperSeq,        \* the sequence behind diapers.id (SERIAL)
    price_history,    \* the rows of table price_history
    scraping_logs,    \* the rows of table scraping_logs
    batch,            \* the batchUpsertDiapers call in progress
    calls,            \* how many DatabaseService calls callers have made
    lastCall,         \* the last DatabaseService call made and how it ended
    amazonScraper,    \* get-diapers.js: whether the Amazon scraper was loaded
    lastScrapingTime, \* get-diapers.js: let lastScrapingTime
    req,              \* the invocation of exports.handler in progress
    requests,         \* how many invocations have started
    lastSuccess,      \* when the last scraping run logged as successful ended
    observed,         \* the listings each run with a resolved batch upserted
    scrapers,         \* ScraperManager: this.scrapers
    job,              \* the runScrapingJob call in progress
    run,              \* the searchDiapers call of one scraper in progress
    ex,               \* a product title and what the extractors made of it
    tile,             \* a product tile of a search page and the listings made of it
    search,           \* a searchDiapers call's loop over the brands and sizes
    handlers,         \* get-diapers.js: the invocations of exports.handler in flight
    cache,            \* the Express routes: cachedDiapers, lastCacheUpdate and the
                      \* updateCache calls in flight
    well              \* one WellScraper: this.browser, its browsers and pages, and
                      \* the searchDiapers calls in flight

dbVars == <<diapers, diaperSeq, price_history, scraping_logs>>

callVars == <<calls, lastCall>>

handlerVars == <<amazonScraper, lastScrapingTime, req, requests, lastSuccess, observed>>

jobVars == <<scrapers, job>>

webVars == <<handlers, cache, well>>

vars == <<now, dbVars, batch, callVars, handlerVars, jobVars, run, ex, tile, search, webVars>>

(***************************************************************************)
(* DatabaseService: db-service.js                                          *)
(***************************************************************************)
\* The statement fails on a NOT NULL column given null (count) or on a type
\* longer than its VARCHAR.
UpsertRejected(d) == d.count = Null \/ Len(d.type) > TypeMaxLen

\* The row an INSERT of upsertDiaper's parameters creates at time t.
InsertedRow(id, d, t) ==
    [id |-> id, brand |-> d.brand, type |-> d.type, size |-> d.size,
     count |-> d.count, retailer |-> d.retailer,
     price |-> Numeric(d.price, PriceScale),
     price_per_diaper |-> Numeric(d.pricePerDiaper, PerDiaperScale),
     url |-> d.url, in_stock |-> d.inStock,
     created_at |-> t, updated_at |-> t, last_scraped |-> t]

\* An ON CONFLICT clause that replaces the row by the proposed one.
ReplacedRow(r, d, t) == InsertedRow(r.id, d, t)

\* ON CONFLICT (brand, type, size, retailer) DO NOTHING.
KeptRow(r, d, t) == r

\* ON CONFLICT (brand, type, size, retailer) DO UPDATE SET ... on the row r.
UpdatedRow(r, d, t) ==
    [r EXCEPT !.count = d.count,
              !.price = Numeric(d.price, PriceScale),
              !.price_per_diaper = Numeric(d.pricePerDiaper, PerDiaperScale),
              !.url = d.url,
              !.in_stock = d.inStock,
              !.updated_at = t,
              !.last_scraped = t]

\* A plain INSERT, without the ON CONFLICT clause and the UNIQUE constraint.
InsertRows(tbl, id, d, t) == Append(tbl, InsertedRow(id, d, t))

\* An upsert that also deletes every row of another key.
UpsertAndPurge(tbl, id, d, t) ==
    IF \E i \in DOMAIN tbl : KeyOf(tbl[i]) = KeyOf(d)
    THEN LET kept == SelectSeq(tbl, LAMBDA r : KeyOf(r) = KeyOf(d))
         IN  [i \in DOMAIN kept |-> UpdatedRow(kept[i], d, t)]
    ELSE <<InsertedRow(id, d, t)>>

\* The table after the INSERT ... ON CONFLICT DO UPDATE of upsertDiaper; id is
\* the value drawn from the sequence for the proposed row.
UpsertRows(tbl, id, d, t) ==
    IF \E i \in DOMAIN tbl : KeyOf(tbl[i]) = KeyOf(d)
    THEN [i \in DOMAIN tbl |->
            IF KeyOf(tbl[i]) = KeyOf(d) THEN UpdatedRow(tbl[i], d, t) ELSE tbl[i]]
    ELSE Append(tbl, InsertedRow(id, d, t))

\* RETURNING id, brand, type, retailer, price, price_per_diaper
Returning(tbl, d) ==
    LET r == tbl[CHOOSE i \in DOMAIN tbl : KeyOf(tbl[i]) = KeyOf(d)]
    IN  [id |-> r.id, brand |-> r.brand, type |-> r.type, retailer |-> r.retailer,
         price |-> r.price, price_per_diaper |-> r.price_per_diaper]

\* upsertDiaper(diaperData): one statement; fail is a failure of the
\* connection.  The outcome and the store after it.
upsertDiaper(d, fail) ==
    IF fail
    THEN [ok |-> FALSE, diapers |-> diapers, diaperSeq |-> diaperSeq]
    ELSE IF UpsertRejected(d)
    THEN [ok |-> FALSE, diapers |-> diapers, diaperSeq |-> diaperSeq + 1]
    ELSE [ok |-> TRUE, diapers |-> UpsertRows(diapers, diaperSeq + 1, d, now),
          diaperSeq |-> diaperSeq + 1]

\* The row recordPriceHistory inserts.
HistoryRow(id, diaperId, price, pricePerDiaper, inStock, t) ==
    [id |-> id, diaper_id |-> diaperId, price |-> Numeric(price, PriceScale),
     price_per_diaper |-> Numeric(pricePerDiaper, PerDiaperScale),
     in_stock |-> inStock, recorded_at |-> t]

\* diaper_id INTEGER REFERENCES diapers(id)
ForeignKeyOk(diaperId) == \E i \in DOMAIN diapers : diapers[i].id = diaperId

\* A recordPriceHistory that writes a row only when the price differs from the
\* listing's last recorded one.
recordPriceChange(diaperId, price, pricePerDiaper, inStock, fail) ==
    LET mine == SelectSeq(price_history, LAMBDA h : h.diaper_id = diaperId)
    IN  IF fail \/ ~ForeignKeyOk(diaperId)
        THEN [ok |-> FALSE, price_history |-> price_history]
        ELSE IF mine # <<>> /\ mine[Len(mine)].price = Numeric(price, PriceScale)
        THEN [ok |-> TRUE, price_history |-> price_history]
        ELSE [ok |-> TRUE,
              price_history |->
                  Append(price_history,
                         HistoryRow(Len(price_history) + 1, diaperId, price,
                                    pricePerDiaper, inStock, now))]

\* recordPriceHistory(diaperId, price, pricePerDiaper, inStock): the table after
\* the call.
recordPriceHistory(diaperId, price, pricePerDiaper, inStock, fail) ==
    IF fail \/ ~ForeignKeyOk(diaperId)
    THEN [ok |-> FALSE, price_history |-> price_history]
    ELSE [ok |-> TRUE,
          price_history |->
              Append(price_history,
                     HistoryRow(Len(price_history) + 1, diaperId, price,
                                pricePerDiaper, inStock, now))]

\* logScrapingSession(retailer, productsFound, success, errorMessage,
\* executionTime): the table after the call.
logScrapingSession(retailer, productsFound, success, errorMessage, executionTime, fail) ==
    IF fail
    THEN [ok |-> FALSE, scraping_logs |-> scraping_logs]
    ELSE [ok |-> TRUE,
          scraping_logs |->
              Append(scraping_logs,
                     [id |-> Len(scraping_logs) + 1, retailer |-> retailer,
                      scrape_started |-> now, scrape_completed |-> now,
                      products_found |-> productsFound, success |-> success,
                      error_message |-> errorMessage,
                      execution_time_ms |-> executionTime])]

\* No batchUpsertDiapers call is in progress.
NoBatch == [pc |-> "idle", data |-> <<>>, idx |-> 0, results |-> <<>>, owner |-> "none"]

\* batchUpsertDiapers(diapersData) up to its first await: the loop is over
\* when the list is empty.
batchUpsertDiapers(diapersData, owner) ==
    [pc |-> IF diapersData = <<>> THEN "resolved" ELSE "running",
     data |-> diapersData, idx |-> 1, results |-> <<>>, owner |-> owner]

\* A loop that logs the failure of an upsert and goes on with the next listing.
BatchSkipping(b, r) ==
    [b EXCEPT !.results = IF r.ok THEN Append(@, Returning(r.diapers, b.data[b.idx])) ELSE @,
              !.idx = @ + 1,
              !.pc = IF b.idx = Len(b.data) THEN "resolved" ELSE "running"]

\* The batch after the awaited upsertDiaper of its idx-th listing ended with
\* outcome r: a failure leaves the loop through the catch, which rethrows.
BatchAfter(b, r) ==
    IF ~r.ok THEN [b EXCEPT !.pc = "rejected"]
    ELSE [b EXCEPT !.results = Append(@, Returning(r.diapers, b.data[b.idx])),
                   !.idx = @ + 1,
                   !.pc = IF b.idx = Len(b.data) THEN "resolved" ELSE "running"]

\* One iteration of the loop of batchUpsertDiapers.
BatchStep ==
    /\ batch.pc = "running"
    /\ \E fail \in BOOLEAN :
          LET r == upsertDiaper(batch.data[batch.idx], fail)
          IN  /\ batch' = BatchAfter(batch, r)
              /\ diapers' = r.diapers
              /\ diaperSeq' = r.diaperSeq
    /\ UNCHANGED <<now, price_history, scraping_logs, callVars, handlerVars, jobVars, run, ex, tile, search,
                   webVars>>

\* Time passes between invocations of the handler, at most ticks times: a
\* step of the clock is hours, an invocation takes seconds.
Tick(ticks) ==
    /\ now < StartTime + ticks * TickStep
    /\ req.pc \in {"idle", "done"}
    /\ now' = now + TickStep
    /\ UNCHANGED <<dbVars, batch, callVars, handlerVars, jobVars, run, ex, tile, search, webVars>>

(***************************************************************************)
(* The get-diapers function: netlify/functions/get-diapers.js              *)
(***************************************************************************)
All == <<"a","l","l">>

\* const filters of a request without query parameters.
DefaultFilters ==
    [brand |-> All, size |-> "all", retailer |-> "all",
     sortBy |-> "pricePerDiaper", sortOrder |-> "asc"]

\* if (filters.brand && filters.brand !== 'all'): the filter is given (brand
\* as text; size and retailer as strings, "" for one that is not given).
BrandGiven(brand) == ~FalsyStr(brand) /\ brand # All

Given(filter) == filter # "" /\ filter # "all"

\* A WHERE clause without the in_stock = true condition.
WhereAny(x, filters) ==
    /\ BrandGiven(filters.brand) => x.brand = filters.brand
    /\ Given(filters.size) => x.size = filters.size
    /\ Given(filters.retailer) => x.retailer = filters.retailer

\* WHERE in_stock = true [AND brand = $1] [AND size = $2] [AND retailer = $3]
Where(x, filters) ==
    /\ x.in_stock
    /\ BrandGiven(filters.brand) => x.brand = filters.brand
    /\ Given(filters.size) => x.size = filters.size
    /\ Given(filters.retailer) => x.retailer = filters.retailer

\* SELECT id, brand, type, size, count, retailer, price, price_per_diaper,
\* url, in_stock, updated_at, last_scraped
Columns(r) ==
    [id |-> r.id, brand |-> r.brand, type |-> r.type, size |-> r.size,
     count |-> r.count, retailer |-> r.retailer, price |-> r.price,
     price_per_diaper |-> r.price_per_diaper, url |-> r.url,
     in_stock |-> r.in_stock, updated_at |-> r.updated_at,
     last_scraped |-> r.last_scraped]

\* getAllDiapers(filters): the rows the SELECT returns, as a set (the ORDER BY
\* is not part of this value).
getAllDiapers(filters, fail) ==
    IF fail THEN [ok |-> FALSE, rows |-> {}]
    ELSE [ok |-> TRUE,
          rows |-> {Columns(r) : r \in {x \in Range(diapers) : Where(x, filters)}}]

\* The ORDER BY clause getAllDiapers adds: the column and the direction.
OrderColumn(sortBy) ==
    IF sortBy \in {"", "pricePerDiaper"} THEN "price_per_diaper"
    ELSE IF sortBy = "price" THEN "price"
    ELSE IF sortBy = "brand" THEN "brand"
    ELSE IF sortBy = "updated" THEN "updated_at"
    ELSE "price_per_diaper"

\* An ORDER BY clause that is always ascending.
Ascending(sortBy, sortOrder) == "ASC"

\* sortOrder.toUpperCase() in the four cases of the switch, ASC in the default
\* case.
OrderDirection(sortBy, sortOrder) ==
    IF sortBy \in {"", "pricePerDiaper", "price", "brand", "updated"}
    THEN IF sortOrder \in {"", "asc"} THEN "ASC" ELSE "DESC"
    ELSE "ASC"

\* The place of a character in the collation of the brand column: letters in
\* alphabetical order whatever their case, after every other character.
CharRank(c) ==
    IF LowerChar(c) \in Range(LowerCase)
    THEN CHOOSE i \in DOMAIN LowerCase : LowerCase[i] = LowerChar(c)
    ELSE 0

\* a < b for two values of the brand column.
RECURSIVE TextLess(_, _)
TextLess(a, b) ==
    IF b = <<>> THEN FALSE
    ELSE IF a = <<>> THEN TRUE
    ELSE IF CharRank(Head(a)) # CharRank(Head(b)) THEN CharRank(Head(a)) < CharRank(Head(b))
    ELSE TextLess(Tail(a), Tail(b))

\* a < b for two values of a column.
ColumnLess(column, a, b) == IF column = "brand" THEN TextLess(a, b) ELSE a < b

\* Row x comes before row y under ORDER BY column direction; the database is
\* free in the order of rows with equal values, here it takes them by id,
\* upwards or downwards.
Before(x, y, column, direction, ties) ==
    IF x[column] = y[column]
    THEN IF ties = "ASC" THEN x.id < y.id ELSE x.id > y.id
    ELSE IF direction = "ASC" THEN ColumnLess(column, x[column], y[column])
    ELSE ColumnLess(column, y[column], x[column])

\* The rows of the table that are in the set rows, in the order of the ORDER
\* BY clause.
OrderBy(rows, column, direction, ties) ==
    SortSeq(SelectSeq([i \in DOMAIN diapers |-> Columns(diapers[i])],
                      LAMBDA x : x \in rows),
            LAMBDA x, y : Before(x, y, column, direction, ties))

\* const transformedDiapers = diapers.map(...) of the handler.
transformedDiapers(rows) ==
    {[brand |-> r.brand, type |-> r.type, size |-> r.size, count |-> r.count,
      retailer |-> r.retailer, price |-> r.price,
      pricePerDiaper |-> r.price_per_diaper, url |-> r.url,
      inStock |-> r.in_stock, lastUpdated |-> r.updated_at] : r \in rows}

\* A transform that skips no item.
NeverSkipped(count) == FALSE

\* if (!count) return null
Skipped(count) == FalsyNum(count)

\* const diaperData = liveData.map(...).filter(item => item !== null): an item
\* without inStock is in stock, and a name that gave a count is not empty.
TransformItem(item) ==
    LET count == extractCount(item.name)
    IN  [brand |-> item.brand,
         type |-> IF FalsyStr(item.name) THEN <<"D","i","a","p","e","r","s">> ELSE item.name,
         size |-> item.size, count |-> count, retailer |-> item.retailer,
         price |-> item.price, pricePerDiaper |-> Div(item.price, count),
         url |-> IF FalsyStr(item.url) THEN item.link ELSE item.url,
         inStock |-> TRUE]

RECURSIVE TransformAll(_)
TransformAll(liveData) ==
    IF liveData = <<>> THEN <<>>
    ELSE IF Skipped(extractCount(Head(liveData).name))
    THEN TransformAll(Tail(liveData))
    ELSE <<TransformItem(Head(liveData))>> \o TransformAll(Tail(liveData))

\* The arguments of a logScrapingSession call of runScheduledScraping.
LogArgs(productsFound, success, errorMessage, executionTime) ==
    [productsFound |-> productsFound, success |-> success,
     errorMessage |-> errorMessage, executionTime |-> executionTime]

\* No invocation of the handler is in progress.
IdleReq ==
    [pc |-> "idle", now |-> 0, shouldScrape |-> FALSE, stale |-> FALSE,
     startTime |-> 0, executionTime |-> 0, liveData |-> <<>>, diaperData |-> <<>>,
     log |-> LogArgs(0, FALSE, "null", Null), error |-> "none",
     statusCode |-> 0, body |-> {}]

\* What the Amazon search pages show: ASIN, brand, title and price of the
\* first result of each brand's search.
Offers ==
    {<<"B07FQRZ8QM", Pampers, <<"P","a","m","p","e","r","s"," ","B","a","b","y"," ","D","r","y"," ","D","i","a","p","e","r","s"," ","S","i","z","e"," ","3"," ","1","9","8"," ","C","o","u","n","t">>, Frac(5497, 100)>>,
     <<"B07FQRZ8QM", Pampers, <<"P","a","m","p","e","r","s"," ","B","a","b","y"," ","D","r","y"," ","D","i","a","p","e","r","s"," ","S","i","z","e"," ","3"," ","1","9","8"," ","C","o","u","n","t">>, Frac(4999, 100)>>,
     <<"B07FQS1NLP", Pampers, <<"P","a","m","p","e","r","s"," ","D","i","a","p","e","r","s"," ","S","i","z","e"," ","3"," ","6"," ","C","o","u","n","t">>, Frac(997, 100)>>,
     <<"B07FQT4LNC", Huggies, <<"H","u","g","g","i","e","s"," ","L","i","t","t","l","e"," ","S","n","u","g","g","l","e","r","s"," ","D","i","a","p","e","r","s"," ","S","i","z","e"," ","3"," ","1","3","2"," ","C","o","u","n","t">>, Frac(4497, 100)>>}

\* The products searchDiapers can return for one brand of scrapingParams: at
\* most one (foundProducts), which passed isDiaperProduct and has a count.
\* Both shapes of product are results: the one AmazonScraper builds and the one
\* with name and link that runScheduledScraping reads.
BrandResults(brand, t) ==
    {<<>>} \cup
    UNION {{<<AmazonProduct(o[1], brand, "3", o[3], o[4], t)>>,
            <<NamedProduct(o[1], brand, "3", o[3], o[4], t)>>} :
              o \in {x \in Offers : /\ x[2] = brand
                                    /\ isDiaperProduct(x[3], brand)
                                    /\ ~FalsyNum(AmazonExtractCount(x[3]))}}

\* amazonScraper.searchDiapers({brands: ['Pampers', 'Huggies'], sizes: ['3']}):
\* it never rejects, a failed search gives no product.
SearchResults(t) ==
    {p \o h : p \in BrandResults(Pampers, t), h \in BrandResults(Huggies, t)}

\* exports.handler up to its first await.
HandlerStart ==
    /\ req.pc \in {"idle", "done"}
    /\ requests < MaxRequests
    /\ requests' = requests + 1
    /\ LET shouldScrape == \/ FalsyNum(lastScrapingTime)
                           \/ now - lastScrapingTime >= SCRAPING_INTERVAL
           r == [IdleReq EXCEPT
                   !.now = now, !.shouldScrape = shouldScrape,
                   !.stale = \/ lastSuccess = Null
                             \/ now - lastSuccess >= SCRAPING_INTERVAL]
       IN  IF shouldScrape /\ amazonScraper
           THEN /\ req' = [r EXCEPT !.pc = "search", !.startTime = now]
                /\ UNCHANGED lastScrapingTime
           ELSE /\ req' = [r EXCEPT !.pc = "read"]
                /\ lastScrapingTime' = IF shouldScrape THEN now ELSE lastScrapingTime
    /\ UNCHANGED <<now, dbVars, batch, callVars, amazonScraper, lastSuccess, observed, jobVars, run, ex, tile, search,
                   webVars>>

\* runScheduledScraping: await amazonScraper.searchDiapers(...) ends.
SearchSettled ==
    /\ req.pc = "search"
    /\ \E liveData \in SearchResults(now) :
          LET executionTime == now - req.startTime
              diaperData == TransformAll(liveData)
              r == [req EXCEPT !.liveData = liveData, !.executionTime = executionTime]
          IN  IF Len(liveData) > 0
              THEN IF Len(diaperData) > 0
                   THEN /\ req' = [r EXCEPT !.pc = "upsert", !.diaperData = diaperData]
                        /\ batch' = batchUpsertDiapers(diaperData, "handler")
                   ELSE /\ req' = [r EXCEPT !.pc = "log",
                                     !.log = LogArgs(0, TRUE, "null", executionTime)]
                        /\ UNCHANGED batch
              ELSE /\ req' = [r EXCEPT !.pc = "log",
                                !.log = LogArgs(0, FALSE, "No data returned", executionTime)]
                   /\ UNCHANGED batch
    /\ UNCHANGED <<now, dbVars, callVars, amazonScraper, lastScrapingTime, requests,
                   lastSuccess, observed, jobVars, run, ex, tile, search,
                   webVars>>

\* runScheduledScraping: await db.batchUpsertDiapers(diaperData) ends.
UpsertSettled ==
    /\ req.pc = "upsert"
    /\ batch.owner = "handler"
    /\ batch.pc \in {"resolved", "rejected"}
    /\ IF batch.pc = "resolved"
       THEN /\ req' = [req EXCEPT !.pc = "log",
                         !.log = LogArgs(Len(req.diaperData), TRUE, "null",
                                         req.executionTime)]
            /\ observed' = Append(observed, req.diaperData)
       ELSE /\ req' = [req EXCEPT !.pc = "catch", !.error = "upsert"]
            /\ UNCHANGED observed
    /\ batch' = NoBatch
    /\ UNCHANGED <<now, dbVars, callVars, amazonScraper, lastScrapingTime, requests,
                   lastSuccess, jobVars, run, ex, tile, search, webVars>>

\* runScheduledScraping: the await db.logScrapingSession(...) of the try block
\* ends; after it the function returns and the handler sets lastScrapingTime.
LogSettled ==
    /\ req.pc = "log"
    /\ \E fail \in BOOLEAN :
          LET r == logScrapingSession("Amazon.ca", req.log.productsFound,
                                      req.log.success, req.log.errorMessage,
                                      req.log.executionTime, fail)
          IN  /\ scraping_logs' = r.scraping_logs
              /\ IF r.ok
                 THEN /\ req' = [req EXCEPT !.pc = "read"]
                      /\ lastScrapingTime' = req.now
                      /\ lastSuccess' = IF req.log.success THEN now ELSE lastSuccess
                 ELSE /\ req' = [req EXCEPT !.pc = "catch", !.error = "log"]
                      /\ UNCHANGED <<lastScrapingTime, lastSuccess>>
    /\ UNCHANGED <<now, diapers, diaperSeq, price_history, batch, callVars,
                   amazonScraper, requests, observed, jobVars, run, ex, tile, search,
                   webVars>>

\* runScheduledScraping: the await db.logScrapingSession(...) of the catch
\* block ends; its rejection leaves runScheduledScraping and is caught by the
\* handler, which answers 500.
CatchLogSettled ==
    /\ req.pc = "catch"
    /\ \E fail \in BOOLEAN :
          LET r == logScrapingSession("Amazon.ca", 0, FALSE, req.error, Null, fail)
          IN  /\ scraping_logs' = r.scraping_logs
              /\ IF r.ok
                 THEN /\ req' = [req EXCEPT !.pc = "read"]
                      /\ lastScrapingTime' = req.now
                 ELSE /\ req' = [req EXCEPT !.pc = "done", !.statusCode = 500,
                                   !.error = "scrape"]
                      /\ UNCHANGED lastScrapingTime
    /\ UNCHANGED <<now, diapers, diaperSeq, price_history, batch, callVars,
                   amazonScraper, requests, lastSuccess, observed, jobVars, run, ex, tile, search,
                   webVars>>

\* exports.handler: await db.getAllDiapers(filters) ends and the handler
\* answers.
ReadSettled ==
    /\ req.pc = "read"
    /\ \E fail \in BOOLEAN :
          LET r == getAllDiapers(DefaultFilters, fail)
          IN  req' = IF r.ok
                     THEN [req EXCEPT !.pc = "done", !.statusCode = 200,
                             !.body = transformedDiapers(r.rows)]
                     ELSE [req EXCEPT !.pc = "done", !.statusCode = 500,
                             !.error = "read"]
    /\ UNCHANGED <<now, dbVars, batch, callVars, amazonScraper, lastScrapingTime,
                   requests, lastSuccess, observed, jobVars, run, ex, tile, search,
                   webVars>>

(***************************************************************************)
(* ScraperManager: server/scrapers/costco-scraper.js                       *)
(***************************************************************************)
MaxJobs == 1

MaxProducts == 2

\* The scrapers loadScrapers can find, in directory order.
Adapters == <<"Amazon.ca", "Costco Canada", "Walmart Canada">>

\* this.scrapers after loadScrapers: every file can fail to load.
RECURSIVE SubSeqs(_)
SubSeqs(q) ==
    IF q = <<>> THEN {<<>>}
    ELSE LET rest == SubSeqs(Tail(q))
         IN  rest \cup {<<Head(q)>> \o r : r \in rest}

\* The lists of products a scraper's searchDiapers can resolve with.
ProductLists(name) ==
    {[i \in 1..n |-> [retailer |-> name, id |-> i]] : n \in 0..MaxProducts}

\* How a searchDiapers promise can settle.
Outcomes(name) ==
    {[ok |-> TRUE, products |-> p] : p \in ProductLists(name)}
        \cup {[ok |-> FALSE, products |-> <<>>]}

Pending == [state |-> "pending", value |-> <<>>]

\* The chain without its catch handler: a rejection of searchDiapers passes
\* through.
ThenOnly(o) ==
    IF o.ok THEN [state |-> "fulfilled", value |-> o.products]
    ELSE [state |-> "rejected", value |-> <<>>]

\* scraper.searchDiapers(options).then(products => products).catch(error => []):
\* the promise of the chain once searchDiapers settled with outcome o.
ThenCatch(o) ==
    IF o.ok THEN [state |-> "fulfilled", value |-> o.products]
    ELSE [state |-> "fulfilled", value |-> <<>>]

\* [].concat(...results)
RECURSIVE Concat(_)
Concat(results) ==
    IF results = <<>> THEN <<>> ELSE Head(results) \o Concat(Tail(results))

\* No runScrapingJob call is in progress.
NoJob ==
    [pc |-> "idle", n |-> 0, started |-> {}, settled |-> <<>>, outcomes |-> <<>>,
     scrapingPromises |-> <<>>, allProducts |-> <<>>]

\* The values of the promises in the order in which they settled.
AsSettled(j) == [k \in DOMAIN j.settled |-> j.scrapingPromises[j.settled[k]].value]

\* const results = await Promise.all(scrapingPromises): the values of the
\* promises in the order of the array, which is the order of this.scrapers.
PromiseAll(j) == [i \in DOMAIN j.scrapingPromises |-> j.scrapingPromises[i].value]

\* A loop that calls the first scraper's searchDiapers and awaits it before it
\* calls the next.
OneAtATime(list) == IF list = <<>> THEN {} ELSE {1}

\* this.scrapers.map(scraper => scraper.searchDiapers(options)...): the
\* scrapers whose searchDiapers has been called when map returns.
MapAll(list) == DOMAIN list

\* runScrapingJob(options) up to its await: every scraper's searchDiapers is
\* called and chained.
RunScrapingJob ==
    /\ job.pc \in {"idle", "resolved", "rejected"}
    /\ job.n < MaxJobs
    /\ job' = [pc |-> "running", n |-> job.n + 1, started |-> MapAll(scrapers),
               settled |-> <<>>,
               outcomes |-> [i \in DOMAIN scrapers |-> Pending],
               scrapingPromises |-> [i \in DOMAIN scrapers |-> Pending],
               allProducts |-> <<>>]
    /\ UNCHANGED <<now, dbVars, batch, callVars, handlerVars, scrapers, run, ex, tile, search,
                   webVars>>

\* The searchDiapers promise of the i-th scraper settles and its chain runs.
ScraperSettled ==
    /\ job.pc = "running"
    /\ \E i \in job.started :
          /\ job.scrapingPromises[i] = Pending
          /\ \E o \in Outcomes(scrapers[i]) :
                job' = [job EXCEPT !.outcomes[i] = o,
                                   !.settled = Append(@, i),
                                   !.scrapingPromises[i] = ThenCatch(o)]
    /\ UNCHANGED <<now, dbVars, batch, callVars, handlerVars, scrapers, run, ex, tile, search,
                   webVars>>

\* await Promise.all(scrapingPromises) ends: it rejects when a promise of the
\* list rejected and resolves when all are fulfilled.
AwaitAll ==
    /\ job.pc = "running"
    /\ LET p == job.scrapingPromises
       IN  IF \E i \in DOMAIN p : p[i].state = "rejected"
           THEN job' = [job EXCEPT !.pc = "rejected"]
           ELSE /\ \A i \in DOMAIN p : p[i].state = "fulfilled"
                /\ job' = [job EXCEPT
                             !.pc = "resolved",
                             !.allProducts = Concat(PromiseAll(job))]
    /\ UNCHANGED <<now, dbVars, batch, callVars, handlerVars, scrapers, run, ex, tile, search,
                   webVars>>

(***************************************************************************)
(* BaseScraper.makeRequest and the scrapers' searchDiapers                 *)
(***************************************************************************)
retryCount == 3

MaxUrls == 2

\* The bodies a GET can answer with: an excerpt of the text and the length of
\* the whole body.
Body(text, length) == [text |-> text, length |-> length]

Bodies ==
    [listing |-> Body(<<"s","-","r","e","s","u","l","t","-","i","t","e","m">>, 50000),
     captcha |-> Body(<<"E","n","t","e","r"," ","t","h","e"," ","c","h","a","r","a","c","t","e","r","s"," ","-"," ","c","a","p","t","c","h","a">>, 5000),
     denied |-> Body(<<"a","c","c","e","s","s"," ","d","e","n","i","e","d">>, 5000),
     short |-> Body(<<"s","-","r","e","s","u","l","t","-","i","t","e","m">>, 600)]

\* How this.axiosInstance.get(url) can settle: with a response, or with an
\* error (no connection, a timeout, a status of 500 or above).
Responses ==
    {[ok |-> TRUE, data |-> Bodies[k], error |-> "none"] : k \in DOMAIN Bodies}
        \cup {[ok |-> FALSE, data |-> Body(<<>>, 0), error |-> "ECONNRESET"],
              [ok |-> FALSE, data |-> Body(<<>>, 0), error |-> "status 503"]}

\* response.data.includes('captcha') || response.data.includes('CAPTCHA') ||
\* response.data.length < 1000
Blocked(data) ==
    \/ includes(data.text, <<"c","a","p","t","c","h","a">>)
    \/ includes(data.text, <<"C","A","P","T","C","H","A">>)
    \/ data.length < 1000

\* The error the attempt's try block throws, "none" when it returns.
AttemptError(resp) ==
    IF ~resp.ok THEN resp.error
    ELSE IF Blocked(resp.data) THEN "CAPTCHA detected or blocked response"
    ELSE "none"

\* A catch block that keeps the first error it caught.
KeepFirst(lastError, error) == IF lastError = "none" THEN error ELSE lastError

\* lastError after the catch block caught error.
Caught(lastError, error) == error

\* getSearchUrls(searchQuery): the first MaxUrls of its URLs.
getSearchUrls(searchQuery) ==
    SubSeq(<< <<"https://www.amazon.ca", "/s?k=", searchQuery, "&ref=nb_sb_noss">>,
              <<"https://www.amazon.ca", "/s?k=", searchQuery, "&i=baby&ref=nb_sb_noss">>,
              <<"https://www.amazon.ca", "/s?k=", searchQuery,
                "&i=baby-products&rh=n%3A2224207011&ref=nb_sb_noss">>,
              <<"https://www.amazon.ca", "/s?k=", searchQuery,
                "&s=featured-rank&ref=nb_sb_ss_ts-doa-p_1_5">>,
              <<"https://www.amazon.ca", "/s?k=", searchQuery,
                "&s=price-asc-rank&ref=nb_sb_ss_ts-doa-p_1_5">> >>, 1, MaxUrls)

\* The URLs one searchDiapers call of AmazonScraper tries for a brand and size.
SearchUrls == getSearchUrls("Pampers diapers size 3")

\* A makeRequest call: its URL, the answers to its GETs so far, and how it
\* ended.
Request(url) ==
    [url |-> url, attempts |-> <<>>, lastError |-> "none", result |-> "pending",
     response |-> <<>>]

\* No searchDiapers call is in progress.
NoRun ==
    [adapter |-> "none", pc |-> "idle", n |-> 0, urlIdx |-> 0, requests |-> <<>>,
     browser |-> "none", results |-> <<>>, settled |-> "pending",
     params |-> [brand |-> <<>>, size |-> ""]]

\* The products the page of a returned response holds: the result items of a
\* listing page, none on any other page.
ProductsOn(data, url) ==
    IF data = Bodies.listing THEN <<[retailer |-> "Amazon.ca", url |-> url]>> ELSE <<>>

\* searchDiapers of AmazonScraper after the inner try block of the URL at
\* urlIdx ended with these products: products end the loop over the URLs, and
\* after the last URL the call returns its results.
AfterUrl(r, products) ==
    IF products # <<>> \/ r.urlIdx = Len(SearchUrls)
    THEN [r EXCEPT !.pc = "done", !.results = products, !.settled = "resolved"]
    ELSE [r EXCEPT !.pc = "request", !.urlIdx = @ + 1,
                   !.requests = Append(@, Request(SearchUrls[r.urlIdx + 1]))]

MaxRuns == 1

\* The searchParams the puppeteer WalmartScraper is called with: those of
\* walmart-scraper.test.js and one more.
WalmartParams ==
    {[brand |-> <<"h","u","g","g","i","e","s">>, size |-> "4"],
     [brand |-> <<"p","a","m","p","e","r","s">>, size |-> "3"]}

\* The one product page the puppeteer WalmartScraper loads.
WalmartUrl == <<"https://www.walmart.ca/en/ip/huggies-little-movers-diapers-size-4-150-diapers/6000201375940">>

\* What the puppeteer WalmartScraper returns for the productData of the page:
\* [{ ...productData, vendor: this.vendor, url }], where productData has title,
\* price, size 'N/A' and quantity 1, and this.vendor is never assigned.
WalmartProduct(title, price) ==
    [title |-> title, price |-> price, size |-> "N/A", quantity |-> 1,
     vendor |-> Undefined, url |-> WalmartUrl]

\* searchDiapers(params) of a scraper is called: AmazonScraper goes to its
\* first makeRequest, the puppeteer WalmartScraper to puppeteer.launch, and
\* WellScraper to scrapeWithPuppeteer for its first URL.
SearchDiapers ==
    /\ run.pc \in {"idle", "done"}
    /\ run.n < MaxRuns
    /\ \E adapter \in {"Amazon.ca", "Walmart", "Well.ca"}, searchParams \in WalmartParams :
          run' = IF adapter = "Amazon.ca"
                 THEN [NoRun EXCEPT !.adapter = adapter, !.n = run.n + 1,
                                    !.pc = "request", !.urlIdx = 1,
                                    !.requests = <<Request(SearchUrls[1])>>]
                 ELSE IF adapter = "Well.ca"
                 THEN [NoRun EXCEPT !.adapter = adapter, !.n = run.n + 1,
                                    !.pc = "puppeteer", !.urlIdx = 1]
                 ELSE [NoRun EXCEPT !.adapter = adapter, !.n = run.n + 1,
                                    !.pc = "launch", !.params = searchParams]
    /\ UNCHANGED <<now, dbVars, batch, callVars, handlerVars, jobVars, ex, tile, search, webVars>>

\* One iteration of the loop of makeRequest: the GET settles.  A response
\* that is not blocked is returned to searchDiapers, which parses it; a failed
\* attempt is followed by the next one, and the last one by the throw of
\* lastError, which the catch block of searchDiapers answers with the next URL.
GetSettled ==
    /\ run.pc = "request"
    /\ \E resp \in Responses :
          LET k == Len(run.requests)
              q == run.requests[k]
              attempt == Len(q.attempts) + 1
              error == AttemptError(resp)
              tried == [q EXCEPT !.attempts = Append(@, resp)]
          IN  IF error = "none"
              THEN run' = AfterUrl([run EXCEPT !.requests[k] =
                                        [tried EXCEPT !.result = "returned",
                                                      !.response = <<resp>>]],
                                   ProductsOn(resp.data, q.url))
              ELSE IF attempt < retryCount
              THEN run' = [run EXCEPT !.requests[k] =
                             [tried EXCEPT !.lastError = Caught(q.lastError, error)]]
              ELSE run' = AfterUrl([run EXCEPT !.requests[k] =
                                        [tried EXCEPT
                                           !.lastError = Caught(q.lastError, error),
                                           !.result = "thrown"]],
                                   <<>>)
    /\ UNCHANGED <<now, dbVars, batch, callVars, handlerVars, jobVars, ex, tile, search, webVars>>

\* searchDiapers of WalmartScraper and of WellScraper: the try block is left,
\* by a return or through the catch block, with this value to return; the
\* finally block closes the browser when there is one.
Finally(r, value) ==
    IF r.browser = "open"
    THEN [r EXCEPT !.pc = "close", !.results = value]
    ELSE [r EXCEPT !.pc = "done", !.results = value, !.settled = "resolved"]

\* await puppeteer.launch(...) settles.
LaunchSettled ==
    /\ run.pc = "launch"
    /\ \E ok \in BOOLEAN :
          run' = IF ok THEN [run EXCEPT !.pc = "navigate", !.browser = "open"]
                 ELSE Finally(run, <<>>)
    /\ UNCHANGED <<now, dbVars, batch, callVars, handlerVars, jobVars, ex, tile, search, webVars>>

\* browser.newPage() and the two page.goto(...) settle.
NavigateSettled ==
    /\ run.pc = "navigate"
    /\ \E ok \in BOOLEAN :
          run' = IF ok THEN [run EXCEPT !.pc = "pageInfo"] ELSE Finally(run, <<>>)
    /\ UNCHANGED <<now, dbVars, batch, callVars, handlerVars, jobVars, ex, tile, search, webVars>>

\* await page.evaluate(...) for pageInfo settles: the page is a CAPTCHA page,
\* or not, or the evaluation throws.
PageInfoSettled ==
    /\ run.pc = "pageInfo"
    /\ \E outcome \in {"captcha", "page", "throws"} :
          run' = IF outcome = "captcha" THEN [run EXCEPT !.pc = "solve"]
                 ELSE IF outcome = "page" THEN [run EXCEPT !.pc = "scrape"]
                 ELSE Finally(run, <<>>)
    /\ UNCHANGED <<now, dbVars, batch, callVars, handlerVars, jobVars, ex, tile, search, webVars>>

\* The inner try block around ac.solveAntiGateTask(...) ends: the solution is
\* applied and the page reloaded, or 'Failed to solve CAPTCHA.' is thrown.
SolveSettled ==
    /\ run.pc = "solve"
    /\ \E ok \in BOOLEAN :
          run' = IF ok THEN [run EXCEPT !.pc = "scrape"] ELSE Finally(run, <<>>)
    /\ UNCHANGED <<now, dbVars, batch, callVars, handlerVars, jobVars, ex, tile, search, webVars>>

\* await page.evaluate(...) for productData settles: with the product, with an
\* error property, or by throwing.
ScrapeSettled ==
    /\ run.pc = "scrape"
    /\ \E outcome \in {"product", "error", "throws"} :
          run' = IF outcome = "product"
                 THEN Finally(run, <<WalmartProduct(<<"Huggies Little Movers Diapers Size 4, 150 Diapers">>,
                                                    Frac(4997, 100))>>)
                 ELSE Finally(run, <<>>)
    /\ UNCHANGED <<now, dbVars, batch, callVars, handlerVars, jobVars, ex, tile, search, webVars>>

\* How many of its search URLs WellScraper tries for one query.
limitedUrls == 2

\* await this.scrapeWithPuppeteer(url) of WellScraper.searchDiapers settles.
\* getBrowser launches the browser when this.browser is not set, and a launch
\* that fails is answered like every other failure of the page, with a result
\* that is not a success; products end the loop over the URLs, and after the
\* loop the finally block closes this.browser when it is set.
PuppeteerSettled ==
    /\ run.pc = "puppeteer"
    /\ \E launched \in BOOLEAN, outcome \in {"products", "empty", "blocked", "error"} :
          LET browser == IF run.browser = "none" /\ ~launched THEN "none" ELSE "open"
              products == IF browser = "open" /\ outcome = "products"
                          THEN <<[retailer |-> "Well.ca",
                                  url |-> <<"https://well.ca/searchresult.html">>]>>
                          ELSE <<>>
              r == [run EXCEPT !.browser = browser]
          IN  run' = IF products # <<>> \/ run.urlIdx = limitedUrls
                     THEN Finally(r, products)
                     ELSE [r EXCEPT !.urlIdx = @ + 1]
    /\ UNCHANGED <<now, dbVars, batch, callVars, handlerVars, jobVars, ex, tile, search, webVars>>

\* await browser.close() of the finally block settles: its rejection replaces
\* the value the call was about to return, skips this.browser = null, and
\* leaves a browser that is closed or still open.
CloseSettled ==
    /\ run.pc = "close"
    /\ \E ok \in BOOLEAN, left \in {"open", "closed"} :
          run' = IF ok
                 THEN [run EXCEPT !.pc = "done", !.browser = "closed",
                                  !.settled = "resolved"]
                 ELSE [run EXCEPT !.pc = "done", !.results = <<>>,
                                  !.browser = left, !.settled = "rejected"]
    /\ UNCHANGED <<now, dbVars, batch, callVars, handlerVars, jobVars, ex, tile, search, webVars>>

(***************************************************************************)
(* searchDiapers: the loops over brands, sizes, queries, URLs and selectors *)
(* of AmazonScraper, CostcoScraper and SuperstoreScraper, and the puppeteer *)
(* WalmartScraper                                                          *)
(***************************************************************************)
\* How many brand and size combinations the params of a call name at most.
MaxCombos == 2

\* How many of its query and URL variants a scraper has for one combination.
MaxVariants == 2

\* params of searchDiapers: params.brands and params.sizes.
Params ==
    {p \in [brands : {<<Pampers>>, <<Huggies>>, <<Pampers, Huggies>>},
            sizes : {<<"3">>, <<"3", "4">>}] :
        Len(p.brands) * Len(p.sizes) <= MaxCombos}

\* The query and URL variants of one combination: SuperstoreScraper has one
\* URL for a combination, the others several queries with several URLs each.
Variants(adapter) == IF adapter = "Superstore" THEN 1 ELSE MaxVariants

\* if (productsFound >= 3) of CostcoScraper; AmazonScraper sets foundProducts
\* with its first product.  SuperstoreScraper has no such test (0).
Enough(adapter) ==
    IF adapter = "Costco" THEN 3 ELSE IF adapter = "Amazon.ca" THEN 1 ELSE 0

\* What a page holds: for each of two product selectors, how many of the
\* elements it selects are valid products of the combination.
Pages == {<<c1, c2>> : c1 \in {0, 2, 3}, c2 \in {0, 2}}

\* How the try block of one variant can go: a page is parsed; the scraper
\* itself finds the page blocked (continue); or makeRequest or the parsing
\* throws.
Fetches ==
    {[kind |-> "page", page |-> pg] : pg \in Pages}
        \cup {[kind |-> k, page |-> <<0, 0>>] :
                 k \in {"blocked page", "fetch error", "blocked", "parse error"}}

Min(a, b) == IF a < b THEN a ELSE b

\* The products.each of one selector over count valid elements: how many
\* products it pushes and whether it sets foundProducts.
EachOf(adapter, count) ==
    IF Enough(adapter) = 0
    THEN [pushed |-> count, found |-> FALSE]
    ELSE [pushed |-> Min(count, Enough(adapter)), found |-> count >= Enough(adapter)]

\* for (const selector of productSelectors): the selectors in order, none
\* after foundProducts is set; SuperstoreScraper has the one selector.
Selected(adapter, page) ==
    LET first == EachOf(adapter, page[1])
        second == EachOf(adapter, page[2])
    IN  IF adapter = "Superstore" \/ first.found THEN first
        ELSE [pushed |-> first.pushed + second.pushed, found |-> second.found]

\* No searchDiapers call.
NoSearch ==
    [adapter |-> "none", pc |-> "idle", params |-> [brands |-> <<>>, sizes |-> <<>>],
     b |-> 0, s |-> 0, v |-> 0, fetched |-> <<>>, results |-> <<>>, returned |-> <<>>]

\* The next iteration of the loops over the sizes and the brands; after the
\* last one, return results.
NextCombo(c) ==
    IF c.s < Len(c.params.sizes) THEN [c EXCEPT !.s = @ + 1, !.v = 1]
    ELSE IF c.b < Len(c.params.brands) THEN [c EXCEPT !.b = @ + 1, !.s = 1, !.v = 1]
    ELSE [c EXCEPT !.pc = "done", !.returned = c.results]

\* The next iteration of the loops over the queries and the URLs of the
\* combination; after the last one, the next combination.
NextVariant(c) ==
    IF c.v < Variants(c.adapter) THEN [c EXCEPT !.v = @ + 1] ELSE NextCombo(c)

\* The catch block of the whole of searchDiapers: return [].
CatchOuter(c) == [c EXCEPT !.pc = "done", !.returned = <<>>]

\* A catch block that tries the same URL again.
CatchRetry(c) == c

\* The catch block inside the loop over the URLs: continue.
CatchInner(c) == NextVariant(c)

\* n products of the combination, found by the k-th fetch of the call.
Products(c, k, n) ==
    [i \in 1..n |-> [brand |-> c.params.brands[c.b], size |-> c.params.sizes[c.s],
                     fetch |-> k]]

\* searchDiapers(params) is called.
SearchCalled ==
    /\ search.pc = "idle"
    /\ \E adapter \in {"Amazon.ca", "Costco", "Superstore", "Walmart"}, params \in Params :
          search' = [NoSearch EXCEPT !.adapter = adapter, !.params = params,
                                     !.pc = IF adapter = "Walmart" THEN "walmart" ELSE "fetch",
                                     !.b = 1, !.s = 1, !.v = 1]
    /\ UNCHANGED <<now, dbVars, batch, callVars, handlerVars, jobVars, run, ex, tile, webVars>>

\* The try block of one variant of the current combination ends.
VariantSettled ==
    /\ search.pc = "fetch"
    /\ \E f \in Fetches :
          LET k == Len(search.fetched) + 1
              fetched == [search EXCEPT !.fetched =
                            Append(@, [brand |-> search.params.brands[search.b],
                                       size |-> search.params.sizes[search.s],
                                       variant |-> search.v, kind |-> f.kind])]
              sel == Selected(search.adapter, f.page)
              pushed == [fetched EXCEPT !.results = @ \o Products(search, k, sel.pushed)]
          IN  search' = IF f.kind = "page"
                        THEN IF sel.found THEN NextCombo(pushed) ELSE NextVariant(pushed)
                        ELSE IF f.kind = "blocked page" THEN NextVariant(fetched)
                        ELSE CatchInner(fetched)
    /\ UNCHANGED <<now, dbVars, batch, callVars, handlerVars, jobVars, run, ex, tile, webVars>>

\* The puppeteer WalmartScraper.searchDiapers(searchParams) loads its one
\* product page, whatever the params, and returns the product or nothing.
WalmartSettled ==
    /\ search.pc = "walmart"
    /\ \E n \in {0, 1} :
          LET product == [brand |-> Huggies, size |-> "4", fetch |-> 1]
          IN  search' = [search EXCEPT
                            !.pc = "done",
                            !.fetched = <<[brand |-> Huggies, size |-> "4", variant |-> 1,
                                           kind |-> "page"]>>,
                            !.results = [i \in 1..n |-> product],
                            !.returned = [i \in 1..n |-> product]]
    /\ UNCHANGED <<now, dbVars, batch, callVars, handlerVars, jobVars, run, ex, tile, webVars>>

(***************************************************************************)
(* The extractors applied to product titles                                *)
(***************************************************************************)
MaxWords == 3

\* The sequences of at most n elements of S.
RECURSIVE SeqsUpTo(_, _)
SeqsUpTo(S, n) ==
    IF n = 0 THEN {<<>>}
    ELSE LET shorter == SeqsUpTo(S, n - 1)
         IN  shorter \cup {Append(q, e) : q \in shorter, e \in S}

\* The parts product titles are made of.
Vocabulary ==
    {<<"P","a","m","p","e","r","s">>,
     <<"S","i","z","e"," ","3">>,
     <<"(","1","9","8"," ","C","o","u","n","t",")">>,
     <<"2"," ","P","a","c","k">>,
     <<"1","2"," ","c","t">>,
     <<"3","0"," ","l","b">>,
     <<"M","e","g","a">>,
     <<"J","u","m","b","o">>,
     <<"P","u","r","e">>,
     <<"S","w","a","d","d","l","e","r","s"," ","D","i","a","p","e","r","s">>}

RECURSIVE Join(_)
Join(words) ==
    IF words = <<>> THEN <<>>
    ELSE IF Len(words) = 1 THEN words[1]
    ELSE words[1] \o <<" ">> \o Join(Tail(words))

\* The product titles: up to MaxWords parts separated by a space.
Titles == {Join(ws) : ws \in SeqsUpTo(Vocabulary, MaxWords)}

\* The brands extractDiaperType is called with.
Brands == {Pampers, Huggies, <<"S","e","v","e","n","t","h"," ","G","e","n","e","r","a","t","i","o","n">>}

\* Nothing extracted yet.
Unset == -2

NoTitle == [title |-> <<>>, count |-> Unset, adapterCount |-> Unset, type |-> <<>>,
            brand |-> <<>>]

\* const count = extractCount(item.name) of runScheduledScraping.
ExtractCount ==
    /\ ex.count = Unset
    /\ ex' = [ex EXCEPT !.count = extractCount(ex.title)]
    /\ UNCHANGED <<now, dbVars, batch, callVars, handlerVars, jobVars, run, tile, search, webVars>>

\* const count = this.extractCount(title) of a scraper.
AdapterExtractCount ==
    /\ ex.adapterCount = Unset
    /\ ex' = [ex EXCEPT !.adapterCount = AmazonExtractCount(ex.title)]
    /\ UNCHANGED <<now, dbVars, batch, callVars, handlerVars, jobVars, run, tile, search, webVars>>

\* type: this.extractDiaperType(title, brand) of a scraper.
ExtractDiaperType ==
    /\ ex.type = <<>>
    /\ \E brand \in Brands :
          ex' = [ex EXCEPT !.brand = brand, !.type = extractDiaperType(ex.title, brand)]
    /\ UNCHANGED <<now, dbVars, batch, callVars, handlerVars, jobVars, run, tile, search, webVars>>

(***************************************************************************)
(* The product tiles of a search page: what CostcoScraper,                 *)
(* SuperstoreScraper and ShoppersScraper make of one tile                  *)
(***************************************************************************)
\* null where the code expects a price.
NullPrice == Frac(Null, 1)

\* !price of JavaScript on a price or null.
FalsyPrice(price) == price.num = Null \/ price.num = 0

\* The longest run of digits s starts with.
RECURSIVE LeadingDigits(_)
LeadingDigits(s) ==
    IF s = <<>> \/ Head(s) \notin Digit THEN <<>>
    ELSE <<Head(s)>> \o LeadingDigits(Tail(s))

\* parseFloat(s) on a string of digits and dots: the number its longest
\* numeric prefix denotes, NaN (here null) without one.
parseFloat(s) ==
    LET int == LeadingDigits(s)
        rest == SubSeq(s, Len(int) + 1, Len(s))
        frac == IF rest # <<>> /\ Head(rest) = "." THEN LeadingDigits(Tail(rest)) ELSE <<>>
    IN  IF int = <<>> /\ frac = <<>> THEN NullPrice
        ELSE Frac(parseInt(int) * Pow10(Len(frac)) + parseInt(frac), Pow10(Len(frac)))

\* BaseScraper.cleanPrice(priceText)
cleanPrice(priceText) ==
    LET cleaned == SelectSeq(priceText, LAMBDA c : c \in Digit \cup {"."})
    IN  IF priceText = <<>> \/ cleaned = <<>> THEN NullPrice ELSE parseFloat(cleaned)

\* /(\d+)\s*(count|ct|pack)/i of SuperstoreScraper.searchDiapers
countMatch == <<CapDigits, Star(Space), Alt(<<Lit(w.count), Lit(w.ct), Lit(w.pack)>>)>>

\* The listing an adapter pushes for a tile; count is Null for a product that
\* has no count property.
TileListing(title, brand, price, count) ==
    [title |-> title, brand |-> brand, price |-> price, count |-> count]

\* The callback of products.each in CostcoScraper.searchDiapers on one tile
\* (the tile has a link): the listings it pushes.
CostcoEach(title, brand, priceText) ==
    IF title = <<>> \/ ~isDiaperProduct(title, brand) THEN <<>>
    ELSE IF FalsyPrice(cleanPrice(priceText)) THEN <<>>
    ELSE IF FalsyNum(AmazonExtractCount(title)) THEN <<>>
    ELSE <<TileListing(title, brand, cleanPrice(priceText), AmazonExtractCount(title))>>

\* if (!title.toLowerCase().includes('diaper') ||
\*     !title.toLowerCase().includes(brand.toLowerCase())) return;
Irrelevant(title, brand) ==
    \/ ~includes(toLowerCase(title), w.diaper)
    \/ ~includes(toLowerCase(title), toLowerCase(brand))

\* The callback of $('.product-tile').each in SuperstoreScraper.searchDiapers.
SuperstoreEach(title, brand, priceText) ==
    LET m == match(title, countMatch)
        count == IF m.ok THEN parseInt(m.cap) ELSE Null
    IN  IF Irrelevant(title, brand) THEN <<>>
        ELSE IF FalsyPrice(cleanPrice(priceText)) THEN <<>>
        ELSE IF FalsyNum(count) THEN <<>>
        ELSE <<TileListing(title, brand, cleanPrice(priceText), count)>>

\* The callback of products.each in ShoppersScraper.searchDiapers: the product
\* it pushes has a name and a price, and no count.
ShoppersEach(title, brand, priceText) ==
    IF title = <<>> \/ Irrelevant(title, brand) THEN <<>>
    ELSE IF FalsyPrice(cleanPrice(priceText)) THEN <<>>
    ELSE <<TileListing(title, brand, cleanPrice(priceText), Null)>>

\* The longest tile title, in fragments.
MaxTileWords == 3

\* The fragments the titles of the tiles are built from.
TileVocabulary ==
    {<<"P","a","m","p","e","r","s">>, <<"D","i","a","p","e","r","s">>, <<"S","w","i","m"," ","D","i","a","p","e","r","s">>,
     <<"W","i","p","e","s">>, <<"2","0"," ","c","t">>}

TileTitles == {Join(ws) : ws \in SeqsUpTo(TileVocabulary, MaxTileWords)}

\* The text of the price element of a tile.
PriceTexts == {<<"$","9",".","9","9">>, <<"$","0",".","0","0">>, <<"N","/","A">>, <<>>}

Retailers == {"Costco", "Superstore", "Shoppers"}

\* No tile is being processed.
NoTile ==
    [title |-> <<>>, brand |-> <<>>, priceText |-> <<>>, done |-> {},
     results |-> [a \in Retailers |-> <<>>]]

\* The tile after an adapter processed it and pushed these listings.
Processed(adapter, pushed) ==
    [tile EXCEPT !.done = @ \cup {adapter}, !.results[adapter] = @ \o pushed]

CostcoTile ==
    /\ "Costco" \notin tile.done
    /\ tile' = Processed("Costco", CostcoEach(tile.title, tile.brand, tile.priceText))
    /\ UNCHANGED <<now, dbVars, batch, callVars, handlerVars, jobVars, run, ex, search, webVars>>

SuperstoreTile ==
    /\ "Superstore" \notin tile.done
    /\ tile' = Processed("Superstore", SuperstoreEach(tile.title, tile.brand, tile.priceText))
    /\ UNCHANGED <<now, dbVars, batch, callVars, handlerVars, jobVars, run, ex, search, webVars>>

ShoppersTile ==
    /\ "Shoppers" \notin tile.done
    /\ tile' = Processed("Shoppers", ShoppersEach(tile.title, tile.brand, tile.priceText))
    /\ UNCHANGED <<now, dbVars, batch, callVars, handlerVars, jobVars, run, ex, search, webVars>>

(***************************************************************************)
(* Callers of DatabaseService                                              *)
(***************************************************************************)
MaxCalls == 2

MaxDbTicks == 1

MaxBatch == 2

Asin == <<"https://www.amazon.ca/dp/B07FQRZ8QM">>

\* The listings callers write: the key of a seed row with two different
\* counts, prices and availabilities, and a key not stored yet.
Listing(type, count, price, inStock) ==
    [brand |-> Pampers, type |-> type, size |-> "3", count |-> count,
     retailer |-> "Amazon.ca", price |-> price,
     pricePerDiaper |-> Div(price, count), url |-> Asin, inStock |-> inStock]

Listings ==
    {Listing(SeedRows[1].type, 198, Frac(5497, 100), TRUE),
     Listing(SeedRows[1].type, 186, Frac(49999, 1000), FALSE),
     Listing(<<"S", "w", "a", "d", "d", "l", "e", "r", "s">>, 84, Frac(2997, 100), TRUE)}

Called(op, arg, ok) == [op |-> op, arg |-> arg, ok |-> ok]

\* A caller awaits db.upsertDiaper(d).
CallUpsertDiaper ==
    /\ calls < MaxCalls
    /\ \E d \in Listings, fail \in BOOLEAN :
          LET r == upsertDiaper(d, fail)
          IN  /\ diapers' = r.diapers
              /\ diaperSeq' = r.diaperSeq
              /\ lastCall' = Called("upsertDiaper", d, r.ok)
    /\ calls' = calls + 1
    /\ UNCHANGED <<now, price_history, scraping_logs, batch, handlerVars, jobVars, run, ex, tile, search,
                   webVars>>

\* A caller calls db.batchUpsertDiapers(list).
CallBatchUpsertDiapers ==
    /\ calls < MaxCalls
    /\ batch.pc = "idle"
    /\ \E list \in SeqsUpTo(Listings, MaxBatch) :
          /\ batch' = batchUpsertDiapers(list, "caller")
          /\ lastCall' = Called("batchUpsertDiapers", list, TRUE)
    /\ calls' = calls + 1
    /\ UNCHANGED <<now, dbVars, handlerVars, jobVars, run, ex, tile, search, webVars>>

\* The caller's await of db.batchUpsertDiapers(list) ends.
BatchSettled ==
    /\ batch.owner = "caller"
    /\ batch.pc \in {"resolved", "rejected"}
    /\ lastCall' = Called("batchSettled", batch, batch.pc = "resolved")
    /\ batch' = NoBatch
    /\ UNCHANGED <<now, dbVars, calls, handlerVars, jobVars, run, ex, tile, search, webVars>>

\* A caller awaits db.recordPriceHistory(...) for a stored listing.
CallRecordPriceHistory ==
    /\ calls < MaxCalls
    /\ \E id \in {diapers[1].id, diaperSeq + 1},
          price \in {Frac(5497, 100), Frac(49999, 1000)}, fail \in BOOLEAN :
          LET arg == [diaperId |-> id, price |-> price,
                      pricePerDiaper |-> Div(price, diapers[1].count),
                      inStock |-> diapers[1].in_stock]
              r == recordPriceHistory(id, price, arg.pricePerDiaper, arg.inStock, fail)
          IN  /\ price_history' = r.price_history
              /\ lastCall' = Called("recordPriceHistory", arg, r.ok)
    /\ calls' = calls + 1
    /\ UNCHANGED <<now, diapers, diaperSeq, scraping_logs, batch, handlerVars, jobVars, run, ex, tile, search,
                   webVars>>

\* A caller awaits db.logScrapingSession(...).
CallLogScrapingSession ==
    /\ calls < MaxCalls
    /\ \E success \in BOOLEAN, fail \in BOOLEAN :
          LET arg == [retailer |-> "Amazon.ca", productsFound |-> IF success THEN 1 ELSE 0,
                      success |-> success,
                      errorMessage |-> IF success THEN "null" ELSE "No data returned",
                      executionTime |-> Null]
              r == logScrapingSession(arg.retailer, arg.productsFound, arg.success,
                                      arg.errorMessage, arg.executionTime, fail)
          IN  /\ scraping_logs' = r.scraping_logs
              /\ lastCall' = Called("logScrapingSession", arg, r.ok)
    /\ calls' = calls + 1
    /\ UNCHANGED <<now, diapers, diaperSeq, price_history, batch, handlerVars, jobVars, run, ex, tile, search,
                   webVars>>

\* The filters callers pass to getAllDiapers.
Filters ==
    [brand : {Undefined, All, Pampers}, size : {"", "all", "4"},
     retailer : {"all", "Amazon.ca"},
     sortBy : {"", "pricePerDiaper", "price", "brand", "updated", "name"},
     sortOrder : {"", "asc", "desc"}]

\* A caller awaits db.getAllDiapers(filters).  A query that directly follows
\* a query finds the same rows, and is left out.
CallGetAllDiapers ==
    /\ calls < MaxCalls
    /\ lastCall.op # "getAllDiapers"
    /\ \E filters \in Filters, ties \in {"ASC", "DESC"} :
          \E rows \in {getAllDiapers(filters, FALSE).rows} :
              lastCall' = Called("getAllDiapers",
                                 [filters |-> filters,
                                  results |-> OrderBy(rows, OrderColumn(filters.sortBy),
                                                      OrderDirection(filters.sortBy,
                                                                     filters.sortOrder),
                                                      ties)],
                                 TRUE)
    /\ calls' = calls + 1
    /\ UNCHANGED <<now, dbVars, batch, handlerVars, jobVars, run, ex, tile, search, webVars>>

NoCall == Called("none", <<>>, TRUE)

(***************************************************************************)
(* The cache of the Express routes: cachedDiapers, lastCacheUpdate,        *)
(* isCacheValid, updateCache and ensureFreshData                           *)
(***************************************************************************)
\* CACHE_DURATION, in milliseconds.
CACHE_DURATION == 3600000

\* How many updateCache calls are made.
MaxUpdates == 2

\* let cachedDiapers = []; let lastCacheUpdate = null; no updateCache call has
\* been made.
NoCache ==
    [cachedDiapers |-> <<>>, lastCacheUpdate |-> Null,
     calls |-> [c \in 1..MaxUpdates |-> [pc |-> "idle", outcome |-> "none", settledAt |-> Null]]]

\* isCacheValid()
isCacheValid ==
    /\ Len(cache.cachedDiapers) > 0
    /\ ~FalsyNum(cache.lastCacheUpdate)
    /\ now - cache.lastCacheUpdate < CACHE_DURATION

\* The lists runScrapingJob resolves with at time t.
FreshData(t) ==
    {[i \in 1..n |-> [id |-> i, lastUpdated |-> t]] : n \in 0..2}

\* The demo data of the catch block of updateCache.
DemoData(t) ==
    <<[id |-> 1, lastUpdated |-> t], [id |-> 2, lastUpdated |-> t]>>

\* A refresh that assigns whatever runScrapingJob resolved with.
updateCacheAlways(c, resolved, freshData, t) ==
    IF resolved
    THEN [c EXCEPT !.cachedDiapers = freshData, !.lastCacheUpdate = t]
    ELSE IF Len(c.cachedDiapers) = 0
    THEN [c EXCEPT !.cachedDiapers = DemoData(t), !.lastCacheUpdate = t]
    ELSE c

\* updateCache from the end of await scraperManager.runScrapingJob() on: the
\* try block when the job resolved with freshData, the catch block when it
\* rejected.
updateCache(c, resolved, freshData, t) ==
    IF resolved
    THEN IF Len(freshData) > 0
         THEN [c EXCEPT !.cachedDiapers = freshData, !.lastCacheUpdate = t]
         ELSE c
    ELSE IF Len(c.cachedDiapers) = 0
    THEN [c EXCEPT !.cachedDiapers = DemoData(t), !.lastCacheUpdate = t]
    ELSE c

\* A request passes ensureFreshData: with an invalid cache the middleware calls
\* updateCache, which calls runScrapingJob and awaits it.
EnsureFreshData ==
    /\ ~isCacheValid
    /\ \E k \in 1..MaxUpdates :
          /\ cache.calls[k].pc = "idle"
          /\ cache' = [cache EXCEPT !.calls[k].pc = "job"]
    /\ UNCHANGED <<now, dbVars, batch, callVars, handlerVars, jobVars, run, ex, tile, search,
                   handlers, well>>

\* GET /update-cache: updateCache is called whatever the cache holds.
UpdateCacheRoute ==
    /\ \E k \in 1..MaxUpdates :
          /\ cache.calls[k].pc = "idle"
          /\ cache' = [cache EXCEPT !.calls[k].pc = "job"]
    /\ UNCHANGED <<now, dbVars, batch, callVars, handlerVars, jobVars, run, ex, tile, search,
                   handlers, well>>

\* await scraperManager.runScrapingJob() of an updateCache call ends and the
\* call runs to its end.
JobSettled ==
    /\ \E k \in 1..MaxUpdates, resolved \in BOOLEAN, freshData \in FreshData(now) :
          /\ cache.calls[k].pc = "job"
          /\ cache' = [updateCache(cache, resolved, freshData, now) EXCEPT
                          !.calls[k] = [pc |-> "done",
                                        outcome |-> IF ~resolved THEN "rejected"
                                                    ELSE IF freshData = <<>> THEN "empty"
                                                    ELSE "products",
                                        settledAt |-> now]]
    /\ UNCHANGED <<now, dbVars, batch, callVars, handlerVars, jobVars, run, ex, tile, search,
                   handlers, well>>

(***************************************************************************)
(* One WellScraper instance and the searchDiapers calls that overlap on    *)
(* it: getBrowser, scrapeWithPuppeteer and the finally block.  The browser *)
(* is younger than maxBrowserLifetime throughout.                          *)
(***************************************************************************)
\* How many searchDiapers calls overlap on the instance.
MaxWellCalls == 2

\* A searchDiapers call that has not been made.
IdleWellCall == [pc |-> "idle", urlIdx |-> 0, browser |-> 0, page |-> 0]

\* this.browser = null (0); no browser was launched and no page opened.
\* Browsers and pages are numbered in the order they were created.
NoWell ==
    [browser |-> 0, browsers |-> <<>>, pages |-> <<>>,
     calls |-> [c \in 1..MaxWellCalls |-> IdleWellCall]]

\* The browsers that were launched and not closed.
Live == {b \in DOMAIN well.browsers : well.browsers[b] = "open"}

\* scrapeWithPuppeteer returned in a call: the loop over the URLs goes on with
\* the next URL, or ends, when products were found or after the last URL, and
\* the call reaches its finally block.
AfterScrape(c, found) ==
    IF found \/ c.urlIdx = limitedUrls
    THEN [c EXCEPT !.pc = "finally", !.page = 0]
    ELSE [c EXCEPT !.pc = "getBrowser", !.urlIdx = @ + 1, !.page = 0]

\* searchDiapers(params) is called on the instance and reaches
\* scrapeWithPuppeteer for its first URL.
WellSearchCalled ==
    /\ \E k \in 1..MaxWellCalls :
          /\ well.calls[k].pc = "idle"
          /\ well' = [well EXCEPT !.calls[k] = [IdleWellCall EXCEPT !.pc = "getBrowser",
                                                                   !.urlIdx = 1]]
    /\ UNCHANGED <<now, dbVars, batch, callVars, handlerVars, jobVars, run, ex, tile, search,
                   handlers, cache>>

\* getBrowser() up to its await: with this.browser set it returns it, without
\* one it calls puppeteer.launch.
GetBrowser ==
    /\ \E k \in 1..MaxWellCalls :
          /\ well.calls[k].pc = "getBrowser"
          /\ well' = IF well.browser = 0
                     THEN [well EXCEPT !.calls[k].pc = "launch"]
                     ELSE [well EXCEPT !.calls[k].pc = "newPage",
                                       !.calls[k].browser = well.browser]
    /\ UNCHANGED <<now, dbVars, batch, callVars, handlerVars, jobVars, run, ex, tile, search,
                   handlers, cache>>

\* this.browser = await puppeteer.launch(...) settles: the new browser is
\* stored in this.browser and returned; a failed launch is caught by
\* scrapeWithPuppeteer, which returns without a page.
WellLaunchSettled ==
    /\ \E k \in 1..MaxWellCalls, ok \in BOOLEAN :
          /\ well.calls[k].pc = "launch"
          /\ well' = IF ok
                     THEN [well EXCEPT !.browsers = Append(@, "open"),
                                       !.browser = Len(well.browsers) + 1,
                                       !.calls[k].pc = "newPage",
                                       !.calls[k].browser = Len(well.browsers) + 1]
                     ELSE [well EXCEPT !.calls[k] = AfterScrape(@, FALSE)]
    /\ UNCHANGED <<now, dbVars, batch, callVars, handlerVars, jobVars, run, ex, tile, search,
                   handlers, cache>>

\* page = await browser.newPage() settles: on a browser that was closed in
\* the meantime it throws, and scrapeWithPuppeteer returns without a page.
NewPageSettled ==
    /\ \E k \in 1..MaxWellCalls :
          /\ well.calls[k].pc = "newPage"
          /\ well' = IF well.calls[k].browser \in Live
                     THEN [well EXCEPT
                             !.pages = Append(@, [browser |-> well.calls[k].browser,
                                                  closes |-> 0, returned |-> FALSE]),
                             !.calls[k].pc = "page",
                             !.calls[k].page = Len(well.pages) + 1]
                     ELSE [well EXCEPT !.calls[k] = AfterScrape(@, FALSE)]
    /\ UNCHANGED <<now, dbVars, batch, callVars, handlerVars, jobVars, run, ex, tile, search,
                   handlers, cache>>

\* How often scrapeWithPuppeteer calls page.close() on its page: on a page
\* found blocked in the try block and again in the finally block, otherwise in
\* the finally block only.
Closes(outcome) == IF outcome = "blocked" THEN 2 ELSE 1

\* The rest of scrapeWithPuppeteer: the page is loaded and its content read,
\* found blocked, or one of the awaits throws (as all do once the browser
\* is closed); the finally block closes the page.
PageSettled ==
    /\ \E k \in 1..MaxWellCalls, outcome \in {"products", "empty", "blocked", "error"} :
          /\ well.calls[k].pc = "page"
          /\ well.calls[k].browser \notin Live => outcome = "error"
          /\ well' = [well EXCEPT
                         !.pages[well.calls[k].page].closes = Closes(outcome),
                         !.pages[well.calls[k].page].returned = TRUE,
                         !.calls[k] = AfterScrape(@, outcome = "products")]
    /\ UNCHANGED <<now, dbVars, batch, callVars, handlerVars, jobVars, run, ex, tile, search,
                   handlers, cache>>

\* The finally block of searchDiapers up to its await: with this.browser set
\* it calls this.browser.close().
WellFinally ==
    /\ \E k \in 1..MaxWellCalls :
          /\ well.calls[k].pc = "finally"
          /\ well' = IF well.browser = 0
                     THEN [well EXCEPT !.calls[k].pc = "done"]
                     ELSE [well EXCEPT !.browsers[well.browser] = "closed",
                                       !.calls[k].pc = "close"]
    /\ UNCHANGED <<now, dbVars, batch, callVars, handlerVars, jobVars, run, ex, tile, search,
                   handlers, cache>>

\* await this.browser.close() of the finally block settles: this.browser =
\* null, and the call returns.
WellCloseSettled ==
    /\ \E k \in 1..MaxWellCalls :
          /\ well.calls[k].pc = "close"
          /\ well' = [well EXCEPT !.browser = 0, !.calls[k].pc = "done"]
    /\ UNCHANGED <<now, dbVars, batch, callVars, handlerVars, jobVars, run, ex, tile, search,
                   handlers, cache>>

(***************************************************************************)
(* Invocations of exports.handler of get-diapers.js in one process that     *)
(* overlap: each await of one invocation lets the others run                *)
(***************************************************************************)
\* How many invocations overlap.
MaxHandlers == 3

\* An invocation that has not arrived.
IdleHandler == [pc |-> "idle", now |-> 0, shouldScrape |-> FALSE, statusCode |-> 0]

\* No invocation has arrived, and no scraping run has been started.
NoHandlers == [inv |-> [h \in 1..MaxHandlers |-> IdleHandler], runs |-> <<>>]

\* exports.handler up to its first await: const now = Date.now(), shouldScrape
\* from lastScrapingTime, and the call of runScheduledScraping, which the
\* handler awaits.
HandlerArrives ==
    /\ \E h \in 1..MaxHandlers :
          /\ handlers.inv[h].pc = "idle"
          /\ LET shouldScrape == \/ FalsyNum(lastScrapingTime)
                                 \/ now - lastScrapingTime >= SCRAPING_INTERVAL
             IN  handlers' =
                   [handlers EXCEPT
                      !.inv[h] = [IdleHandler EXCEPT
                                    !.pc = IF shouldScrape THEN "scraping" ELSE "read",
                                    !.now = now, !.shouldScrape = shouldScrape],
                      !.runs = IF shouldScrape THEN Append(@, [by |-> h, start |-> now])
                               ELSE @]
    /\ UNCHANGED <<now, dbVars, batch, callVars, handlerVars, jobVars, run, ex, tile, search,
                   cache, well>>

\* await runScheduledScraping() of an invocation ends: after its return the
\* handler sets lastScrapingTime = now, the time the invocation arrived; its
\* rejection (of the logScrapingSession call of the catch block) is answered
\* with status 500.
ScrapingReturns ==
    /\ \E h \in 1..MaxHandlers, ok \in BOOLEAN :
          /\ handlers.inv[h].pc = "scraping"
          /\ IF ok
             THEN /\ handlers' = [handlers EXCEPT !.inv[h].pc = "read"]
                  /\ lastScrapingTime' = handlers.inv[h].now
             ELSE /\ handlers' = [handlers EXCEPT !.inv[h].pc = "done",
                                                  !.inv[h].statusCode = 500]
                  /\ UNCHANGED lastScrapingTime
    /\ UNCHANGED <<now, dbVars, batch, callVars, amazonScraper, req, requests, lastSuccess,
                   observed, jobVars, run, ex, tile, search, cache, well>>

\* await db.getAllDiapers(filters) of an invocation ends and it answers.
HandlerAnswers ==
    /\ \E h \in 1..MaxHandlers, ok \in BOOLEAN :
          /\ handlers.inv[h].pc = "read"
          /\ handlers' = [handlers EXCEPT !.inv[h].pc = "done",
                                          !.inv[h].statusCode = IF ok THEN 200 ELSE 500]
    /\ UNCHANGED <<now, dbVars, batch, callVars, handlerVars, jobVars, run, ex, tile, search,
                   cache, well>>

\* The store after schema.sql ran; nothing is in progress.
InitStore ==
    /\ now = StartTime
    /\ diapers = SeedRows
    /\ diaperSeq = Len(SeedRows)
    /\ price_history = <<>>
    /\ scraping_logs = <<>>
    /\ batch = NoBatch
    /\ calls = 0
    /\ lastCall = NoCall
    /\ lastScrapingTime = Null
    /\ req = IdleReq
    /\ requests = 0
    /\ lastSuccess = Null
    /\ observed = <<>>
    /\ job = NoJob
    /\ run = NoRun
    /\ handlers = NoHandlers
    /\ cache = NoCache
    /\ well = NoWell

InitDb ==
    /\ InitStore
    /\ ex = NoTitle
    /\ tile = NoTile
    /\ search = NoSearch
    /\ amazonScraper = TRUE
    /\ scrapers = <<>>

NextDb ==
    \/ CallUpsertDiaper
    \/ CallBatchUpsertDiapers
    \/ BatchStep
    \/ BatchSettled
    \/ CallRecordPriceHistory
    \/ CallLogScrapingSession
    \/ Tick(MaxDbTicks)

\* DatabaseService driven by arbitrary callers.
SpecDb == InitDb /\ [][NextDb]_vars

\* Callers writing with upsertDiaper and reading with getAllDiapers.
NextQuery ==
    \/ CallUpsertDiaper
    \/ CallGetAllDiapers
    \/ Tick(MaxDbTicks)

SpecQuery == InitDb /\ [][NextQuery]_vars
(***************************************************************************)
(* The get-diapers function serving requests                               *)
(***************************************************************************)
\* The function instance after its module was loaded: the require of the
\* Amazon scraper can have failed.
Init ==
    /\ InitStore
    /\ ex = NoTitle
    /\ tile = NoTile
    /\ search = NoSearch
    /\ amazonScraper \in BOOLEAN
    /\ scrapers = <<>>

Next ==
    \/ HandlerStart
    \/ SearchSettled
    \/ BatchStep
    \/ UpsertSettled
    \/ LogSettled
    \/ CatchLogSettled
    \/ ReadSettled
    \/ Tick(MaxTicks)

Spec == Init /\ [][Next]_vars

(***************************************************************************)
(* ScraperManager running scraping jobs                                    *)
(***************************************************************************)
InitJob ==
    /\ InitStore
    /\ ex = NoTitle
    /\ tile = NoTile
    /\ search = NoSearch
    /\ amazonScraper = TRUE
    /\ scrapers \in SubSeqs(Adapters)

NextJob ==
    \/ RunScrapingJob
    \/ ScraperSettled
    \/ AwaitAll

SpecJob == InitJob /\ [][NextJob]_vars

(***************************************************************************)
(* One scraper's searchDiapers                                             *)
(***************************************************************************)
InitScrape ==
    /\ InitStore
    /\ ex = NoTitle
    /\ tile = NoTile
    /\ search = NoSearch
    /\ amazonScraper = TRUE
    /\ scrapers = <<>>

NextScrape ==
    \/ SearchDiapers
    \/ GetSettled
    \/ LaunchSettled
    \/ NavigateSettled
    \/ PageInfoSettled
    \/ SolveSettled
    \/ ScrapeSettled
    \/ PuppeteerSettled
    \/ CloseSettled

SpecScrape == InitScrape /\ [][NextScrape]_vars

(***************************************************************************)
(* A searchDiapers call and a runScrapingJob call under fairness: every    *)
(* fetch that was issued settles, every searchDiapers promise settles, and *)
(* a continuation that can run does run                                    *)
(***************************************************************************)
InitFair ==
    /\ InitStore
    /\ ex = NoTitle
    /\ tile = NoTile
    /\ search = NoSearch
    /\ amazonScraper = TRUE
    /\ scrapers = <<"Amazon.ca">>

NextFair ==
    \/ SearchCalled
    \/ VariantSettled
    \/ WalmartSettled
    \/ RunScrapingJob
    \/ ScraperSettled
    \/ AwaitAll

SpecFair ==
    /\ InitFair
    /\ [][NextFair]_vars
    /\ WF_vars(VariantSettled)
    /\ WF_vars(WalmartSettled)
    /\ WF_vars(ScraperSettled)
    /\ WF_vars(AwaitAll)

(***************************************************************************)
(* Overlapping invocations of the get-diapers function                     *)
(***************************************************************************)
InitHandlers ==
    /\ InitStore
    /\ ex = NoTitle
    /\ tile = NoTile
    /\ search = NoSearch
    /\ amazonScraper = TRUE
    /\ scrapers = <<>>

NextHandlers ==
    \/ HandlerArrives
    \/ ScrapingReturns
    \/ HandlerAnswers
    \/ Tick(MaxTicks)

SpecHandlers == InitHandlers /\ [][NextHandlers]_vars

(***************************************************************************)
(* The cache of the Express routes                                         *)
(***************************************************************************)
InitCache ==
    /\ InitStore
    /\ ex = NoTitle
    /\ tile = NoTile
    /\ search = NoSearch
    /\ amazonScraper = TRUE
    /\ scrapers = <<>>

NextCache ==
    \/ EnsureFreshData
    \/ UpdateCacheRoute
    \/ JobSettled
    \/ Tick(MaxTicks)

SpecCache == InitCache /\ [][NextCache]_vars

(***************************************************************************)
(* Overlapping searchDiapers calls on one WellScraper                      *)
(***************************************************************************)
InitWell ==
    /\ InitStore
    /\ ex = NoTitle
    /\ tile = NoTile
    /\ search = NoSearch
    /\ amazonScraper = TRUE
    /\ scrapers = <<>>

NextWell ==
    \/ WellSearchCalled
    \/ GetBrowser
    \/ WellLaunchSettled
    \/ NewPageSettled
    \/ PageSettled
    \/ WellFinally
    \/ WellCloseSettled

SpecWell == InitWell /\ [][NextWell]_vars

(***************************************************************************)
(* The extractors on every title                                           *)
(***************************************************************************)
InitExtract ==
    /\ InitStore
    /\ amazonScraper = TRUE
    /\ scrapers = <<>>
    /\ \E title \in Titles : ex = [NoTitle EXCEPT !.title = title]
    /\ tile = NoTile
    /\ search = NoSearch

NextExtract ==
    \/ ExtractCount
    \/ AdapterExtractCount
    \/ ExtractDiaperType

SpecExtract == InitExtract /\ [][NextExtract]_vars

\* The adapters process a tile of a search page for a brand.
InitTile ==
    /\ InitStore
    /\ amazonScraper = TRUE
    /\ scrapers = <<>>
    /\ ex = NoTitle
    /\ \E title \in TileTitles, brand \in {Pampers, Huggies}, priceText \in PriceTexts :
          tile = [NoTile EXCEPT !.title = title, !.brand = brand, !.priceText = priceText]
    /\ search = NoSearch

NextTile == CostcoTile \/ SuperstoreTile \/ ShoppersTile

SpecTile == InitTile /\ [][NextTile]_vars

\* One searchDiapers call of a scraper with some params.
InitSearch ==
    /\ InitStore
    /\ amazonScraper = TRUE
    /\ scrapers = <<>>
    /\ ex = NoTitle
    /\ tile = NoTile
    /\ search = NoSearch

NextSearch == SearchCalled \/ VariantSettled \/ WalmartSettled

SpecSearch == InitSearch /\ [][NextSearch]_vars

(***************************************************************************)
(* Properties of ScraperManager.runScrapingJob                             *)
(***************************************************************************)
\* What the i-th scraper contributes to the job's result.
Contribution(i) ==
    IF job.outcomes[i].ok THEN job.outcomes[i].products ELSE <<>>

\* C1: whatever scrapers are registered and whichever of their searchDiapers
\* calls reject, runScrapingJob never rejects, and the result it resolves with
\* is the listings of the scrapers that resolved, in registration order, a
\* rejecting scraper contributing the empty list.
C1_JobNeverRejects ==
    /\ job.pc # "rejected"
    /\ job.pc = "resolved" =>
          job.allProducts = Concat([i \in DOMAIN scrapers |-> Contribution(i)])

\* A job resolved with the products of one scraper although another rejected.
C1_Witness ==
    /\ job.pc = "resolved"
    /\ \E i, j \in DOMAIN scrapers :
          /\ ~job.outcomes[i].ok
          /\ job.outcomes[j].ok
          /\ job.outcomes[j].products # <<>>
          /\ job.allProducts = job.outcomes[j].products

\* The scraping_logs rows of a retailer.
LogsOf(retailer) ==
    SelectSeq(scraping_logs, LAMBDA l : l.retailer = retailer)

\* C2: once a scraping job has ended, every scraper it ran has exactly one
\* scraping_logs row per run, whose success flag tells whether the scraper
\* resolved.
C2_OneLogPerScraper ==
    job.pc = "resolved" =>
        \A i \in DOMAIN scrapers :
            /\ Len(LogsOf(scrapers[i])) = job.n
            /\ \A k \in DOMAIN LogsOf(scrapers[i]) :
                  LogsOf(scrapers[i])[k].success = job.outcomes[i].ok

\* C29: while runScrapingJob waits and when it has returned, the
\* searchDiapers of every registered scraper has been called; it returns only
\* when all of them have settled; and until then the settling of one scraper
\* changes nothing for another: no pending scraper is cancelled, no settled one
\* loses its result.
C29_FanOutAwaitAll ==
    /\ [](job.pc \in {"running", "resolved"} => job.started = DOMAIN scrapers)
    /\ [](job.pc = "resolved" =>
             \A i \in DOMAIN scrapers : job.scrapingPromises[i].state = "fulfilled")
    /\ [][job.pc = "running" /\ job'.pc = "running" =>
             \A i \in DOMAIN scrapers :
                 job'.scrapingPromises[i] # job.scrapingPromises[i] =>
                     /\ job.scrapingPromises[i] = Pending
                     /\ \A k \in DOMAIN scrapers \ {i} :
                           job'.scrapingPromises[k] = job.scrapingPromises[k]]_vars

\* The first scraper has not settled yet; the two others have meanwhile run
\* to completion, one with products.
C29_Witness ==
    /\ job.pc = "running"
    /\ Len(scrapers) = 3
    /\ job.scrapingPromises[1] = Pending
    /\ job.scrapingPromises[2].state = "fulfilled"
    /\ job.scrapingPromises[3].state = "fulfilled"
    /\ job.scrapingPromises[3].value # <<>>

\* Where the listings of the i-th scraper start in the list the job returns:
\* after those of the scrapers registered before it.
RECURSIVE Offset(_)
Offset(i) == IF i = 1 THEN 0 ELSE Offset(i - 1) + Len(job.outcomes[i - 1].products)

\* C37: the list a job returns consists of the listings of the first
\* registered scraper, then those of the second, and so on, each scraper's
\* listings in the order its searchDiapers resolved with, in whatever order
\* the scrapers settled.
C37_RegistrationOrder ==
    job.pc = "resolved" =>
        /\ Len(job.allProducts) = Offset(Len(scrapers) + 1)
        /\ \A i \in DOMAIN scrapers :
              \A k \in DOMAIN job.outcomes[i].products :
                  job.allProducts[Offset(i) + k] = job.outcomes[i].products[k]

\* A job returned after its last registered scraper settled first and its
\* first registered scraper last, both with listings.
C37_Witness ==
    /\ job.pc = "resolved"
    /\ Len(scrapers) >= 2
    /\ job.settled[1] = Len(scrapers)
    /\ job.settled[Len(scrapers)] = 1
    /\ Len(job.outcomes[1].products) = 2
    /\ job.outcomes[Len(scrapers)].products # <<>>

(***************************************************************************)
(* Properties of the scrapers                                              *)
(***************************************************************************)
\* C11: a searchDiapers call never rejects, whatever fails during the run,
\* closing the browser included.
C11_SearchNeverRejects == run.settled # "rejected"

\* C30: when a searchDiapers call has settled, resolved or rejected, the
\* browser its run launched is closed: no run ends with its browser open.
C30_BrowserClosed == run.settled # "pending" => run.browser # "open"

\* C31: every product a WalmartScraper.searchDiapers call returned has the
\* fields id, brand, size, count, price, pricePerDiaper, url and retailer, its
\* brand and size are the ones asked for, and its retailer is Walmart.
C31_WalmartProductShape ==
    run.adapter = "Walmart" /\ run.settled = "resolved" =>
        \A i \in DOMAIN run.results :
            /\ {"id", "brand", "size", "count", "price", "pricePerDiaper", "url",
                "retailer"} \subseteq DOMAIN run.results[i]
            /\ run.results[i].brand = run.params.brand
            /\ run.results[i].size = run.params.size
            /\ run.results[i].retailer = "Walmart"

\* The answer to a GET is an error or a response classified as blocked.
Failed(resp) == ~resp.ok \/ Blocked(resp.data)

\* C12: every makeRequest call issues at most retryCount GETs, each one after
\* a failed one; a call that returned returned the answer to its last GET,
\* which is a response not classified as blocked; a call that threw issued
\* retryCount GETs that all failed and threw the error of the last one.
C12_MakeRequestRetries ==
    \A k \in DOMAIN run.requests :
        LET q == run.requests[k]
            n == Len(q.attempts)
        IN  /\ n <= retryCount
            /\ \A i \in 1..(n - 1) : Failed(q.attempts[i])
            /\ q.result = "pending" => n < retryCount /\ \A i \in 1..n : Failed(q.attempts[i])
            /\ q.result = "returned" =>
                  /\ q.response = <<q.attempts[n]>>
                  /\ ~Failed(q.attempts[n])
            /\ q.result = "thrown" =>
                  /\ n = retryCount
                  /\ Failed(q.attempts[n])
                  /\ q.lastError = IF q.attempts[n].ok
                                   THEN "CAPTCHA detected or blocked response"
                                   ELSE q.attempts[n].error

\* One makeRequest call threw after three GETs that failed with different
\* errors, and the next one returned the response of its second GET.
C12_Witness ==
    /\ Len(run.requests) = 2
    /\ run.requests[1].result = "thrown"
    /\ Len(run.requests[1].attempts) = retryCount
    /\ run.requests[1].attempts[1].error # run.requests[1].attempts[retryCount].error
    /\ run.requests[2].result = "returned"
    /\ Len(run.requests[2].attempts) = 2

\* C13: a URL that answered with a response classified as blocked is not
\* fetched again: such a response is the answer to the last GET of its URL.
C13_BlockedNotRefetched ==
    \A k \in DOMAIN run.requests :
        \A i \in 1..(Len(run.requests[k].attempts) - 1) :
            LET resp == run.requests[k].attempts[i]
            IN  ~(resp.ok /\ Blocked(resp.data))

\* The markers of a blocked page.
BlockMarkers == {<<"c","a","p","t","c","h","a">>, <<"a","c","c","e","s","s"," ","d","e","n","i","e","d">>, <<"t","o","o"," ","m","a","n","y"," ","r","e","q","u","e","s","t","s">>}

\* C14: no response makeRequest returns has a body with a CAPTCHA, "access
\* denied" or "too many requests" marker, or a body shorter than 1000
\* characters.
C14_NoBlockedReturned ==
    \A k \in DOMAIN run.requests :
        run.requests[k].result = "returned" =>
            LET data == run.requests[k].response[1].data
            IN  /\ \A m \in BlockMarkers : ~includes(toLowerCase(data.text), m)
                /\ data.length >= 1000

(***************************************************************************)
(* Properties of the extractors                                            *)
(***************************************************************************)
\* "N Count", "N ct" or "N pack" in a title, in any case.
CountMention ==
    <<Wb, CapDigits, Cls(Space, 1, 1, FALSE),
      Alt(<<Lit(w.count), Lit(w.ct), Lit(w.pack)>>)>>

\* The numbers N a title mentions in this way.
Mentions(title) ==
    LET s == toLowerCase(title)
    IN  {parseInt(MatchAt(CountMention, s, p, <<>>).cap) :
            p \in {q \in 1..Len(s) : MatchAt(CountMention, s, q, <<>>).ok}}

\* C15: for a title that contains "N Count", "N ct" or "N pack" with N in
\* 12..300, extractCount returns such an N.
C15_ExplicitCountReturned ==
    ex.count # Unset /\ Mentions(ex.title) \cap (MinCount..MaxCount) # {} =>
        ex.count \in Mentions(ex.title) \cap (MinCount..MaxCount)

\* The title contains one of the words, in any case.
HasKeyword(title, words) == \E k \in words : includes(toLowerCase(title), k)

\* C16: for a title that mentions no count and contains none of the keywords,
\* extractCount returns null.
C16_NoCountNoGuess ==
    /\ ex.count # Unset
    /\ Mentions(ex.title) = {}
    /\ ~HasKeyword(ex.title, {w.mega, w.family, w.jumbo, w.giant, w.super, w.economy,
                              w.newborn, w.preemie})
    => ex.count = Null

\* C17: for a title that contains "mega" or "family" and mentions no count,
\* extractCount returns 144.
C17_MegaDefault ==
    /\ ex.count # Unset
    /\ Mentions(ex.title) = {}
    /\ HasKeyword(ex.title, {w.mega, w.family})
    => ex.count = MegaDefault

\* match[1] of the i-th pattern on the title as a number, Null without a match.
PatternValue(title, i) ==
    IF match(title, patterns[i]).ok THEN parseInt(match(title, patterns[i]).cap) ELSE Null

\* The patterns whose match on the title is a number in 12..300.
InRange(title) ==
    {i \in DOMAIN patterns : PatternValue(title, i) \in MinCount..MaxCount}

\* The 2-3 digit numbers of the title, in order.
Scan(title) ==
    LET all == MatchAllFrom(AllNumbersPattern, title, 1)
    IN  [j \in DOMAIN all |-> parseInt(all[j])]

Least(S) == CHOOSE i \in S : \A j \in S : i <= j

\* C18: extractCount returns the value of the first pattern, in the listed
\* order, that matches with a number in 12..300; when there is none, the first
\* 2-3 digit number of the title in 20..300; and when there is none either, the
\* keyword default.
C18_PriorityOrder ==
    ex.count # Unset =>
        LET scan == Scan(ex.title)
            found == {j \in DOMAIN scan : scan[j] \in MinFallback..MaxCount}
        IN  IF InRange(ex.title) # {}
            THEN ex.count = PatternValue(ex.title, Least(InRange(ex.title)))
            ELSE IF found # {}
            THEN ex.count = scan[Least(found)]
            ELSE ex.count = KeywordDefault(toLowerCase(ex.title))

\* The first pattern matched with a number out of range, was skipped, and a
\* later pattern gave the count.
C18_Witness ==
    /\ ex.count # Unset
    /\ PatternValue(ex.title, 1) # Null
    /\ 1 \notin InRange(ex.title)
    /\ InRange(ex.title) # {}
    /\ ex.count = PatternValue(ex.title, Least(InRange(ex.title)))

\* C19: every count an extractor gives, extractCount of get-diapers.js and the
\* extractCount of the scrapers, is null or in 12..300.
C19_CountsPlausible ==
    /\ ex.count # Unset => ex.count = Null \/ ex.count \in MinCount..MaxCount
    /\ ex.adapterCount # Unset =>
          ex.adapterCount = Null \/ ex.adapterCount \in MinCount..MaxCount

\* The entries of the brand's table whose keyword occurs in the title, in any
\* case.
Hits(title, brand) ==
    {i \in DOMAIN typeMap(toLowerCase(brand)) :
        includes(toLowerCase(title), toLowerCase(typeMap(toLowerCase(brand))[i][1]))}

\* C20: extractDiaperType returns the name of the first entry of the brand's
\* table whose keyword occurs in the title in any case, and "Regular" when
\* there is none or the brand has no table.
C20_FirstListedType ==
    ex.type # <<>> =>
        IF Hits(ex.title, ex.brand) = {}
        THEN ex.type = <<"R","e","g","u","l","a","r">>
        ELSE ex.type = typeMap(toLowerCase(ex.brand))[Least(Hits(ex.title, ex.brand))][2]

\* A title with two keywords of the brand's table, the later listed one
\* first in the title, got the type listed first.
C20_Witness ==
    /\ ex.title = Join(<<<<"P","u","r","e">>, <<"S","w","a","d","d","l","e","r","s"," ","D","i","a","p","e","r","s">>>>)
    /\ ex.brand = Pampers
    /\ Hits(ex.title, ex.brand) = {1, 4}
    /\ ex.type = <<"S","w","a","d","d","l","e","r","s">>

\* The combinations of a call's params, brand by brand and size by size.
Combos(params) ==
    {<<params.brands[i], params.sizes[j]>> :
        i \in DOMAIN params.brands, j \in DOMAIN params.sizes}

\* The fetches of the call for a combination, as indices of search.fetched.
FetchesFor(combo) ==
    {k \in DOMAIN search.fetched :
        <<search.fetched[k].brand, search.fetched[k].size>> = combo}

\* C22: when searchDiapers has returned, it has made a search for every
\* combination of a brand of params.brands and a size of params.sizes.
C22_EveryComboSearched ==
    search.pc = "done" => \A combo \in Combos(search.params) : FetchesFor(combo) # {}

\* How many products of the combination the call has collected by fetches
\* before the k-th.
CollectedBefore(combo, k) ==
    Cardinality({i \in DOMAIN search.results :
                    /\ <<search.results[i].brand, search.results[i].size>> = combo
                    /\ search.results[i].fetch < k})

\* The minimum number of products of a combination (Costco 3, Amazon 1).
Minimum == [Costco |-> 3, Amazon |-> 1]

MinimumOf(adapter) == IF adapter = "Costco" THEN Minimum.Costco ELSE Minimum.Amazon

\* C23: a scraper with a minimum makes no further fetch for a combination and
\* collects no further product of it once the minimum number of products of
\* the combination is collected, and until then it goes through every variant
\* of the combination.
C23_StopsAtMinimum ==
    search.adapter \in {"Costco", "Amazon.ca"} =>
        \A combo \in Combos(search.params) :
            /\ \A k \in FetchesFor(combo) :
                  CollectedBefore(combo, k) < MinimumOf(search.adapter)
            /\ CollectedBefore(combo, Len(search.fetched) + 1) <= MinimumOf(search.adapter)
            /\ search.pc = "done"
                  /\ CollectedBefore(combo, Len(search.fetched) + 1) < MinimumOf(search.adapter)
               => Cardinality(FetchesFor(combo)) = Variants(search.adapter)

\* A variant's try block failed: a fetch error after the retries, a blocked
\* page, or a parse error.
Failure == {"blocked page", "fetch error", "blocked", "parse error"}

\* The entry of search.fetched that follows a fetch of this combination and
\* variant in the order of the loops, if the loops have one.
Following(f) ==
    LET b == CHOOSE i \in DOMAIN search.params.brands : search.params.brands[i] = f.brand
        s == CHOOSE j \in DOMAIN search.params.sizes : search.params.sizes[j] = f.size
    IN  IF f.variant < Variants(search.adapter)
        THEN <<[brand |-> f.brand, size |-> f.size, variant |-> f.variant + 1]>>
        ELSE IF s < Len(search.params.sizes)
        THEN <<[brand |-> f.brand, size |-> search.params.sizes[s + 1], variant |-> 1]>>
        ELSE IF b < Len(search.params.brands)
        THEN <<[brand |-> search.params.brands[b + 1], size |-> search.params.sizes[1],
                variant |-> 1]>>
        ELSE <<>>

\* C24: in the scrapers that loop over the combinations, after a failed
\* variant the call goes on with the next variant of the combination or, after
\* the last one, with the next combination; and the call returns every product
\* it collected.
C24_FailureSwallowed ==
    search.adapter \in {"Amazon.ca", "Costco", "Superstore"} =>
        /\ \A k \in DOMAIN search.fetched :
              search.fetched[k].kind \in Failure /\ Following(search.fetched[k]) # <<>> =>
                  IF k < Len(search.fetched)
                  THEN [x \in {"brand", "size", "variant"} |-> search.fetched[k + 1][x]]
                          = Following(search.fetched[k])[1]
                  ELSE search.pc = "fetch"
        /\ search.pc = "done" => search.returned = search.results

\* A call returned after the first variant of its first combination failed
\* and a later combination gave products.
C24_Witness ==
    /\ search.pc = "done"
    /\ search.adapter = "Amazon.ca"
    /\ Len(search.params.brands) = 2
    /\ search.fetched[1].kind = "fetch error"
    /\ search.fetched[2].kind = "page"
    /\ \E k \in DOMAIN search.fetched :
          search.fetched[k].brand = Huggies /\ search.fetched[k].kind = "parse error"
    /\ search.returned # <<>>

(***************************************************************************)
(* Properties of the adapters' listings                                    *)
(***************************************************************************)
\* The listings the adapters that processed the tile pushed.
Pushed == UNION {Range(tile.results[a]) : a \in tile.done}

\* C21: every listing an adapter pushes has a title that contains the brand
\* asked for (in any case) and a diaper keyword and none of the excluded
\* keywords (wipes, swim, training pants, pull-ups), a price and a count.
C21_OnlyDiapersListed ==
    \A l \in Pushed :
        /\ includes(toLowerCase(l.title), toLowerCase(l.brand))
        /\ includes(toLowerCase(l.title), w.diaper)
        /\ ~HasKeyword(l.title, {aw.wipes, aw.swim, aw.training, aw.pullup1, aw.pullup2,
                                 aw.pullup3})
        /\ ~FalsyPrice(l.price)
        /\ l.count # Null

(***************************************************************************)
(* Properties of DatabaseService                                           *)
(***************************************************************************)
\* The stored rows a query with these filters is to return.
Wanted(filters) ==
    {r \in Range(diapers) :
        /\ r.in_stock
        /\ filters.brand \notin {Undefined, All} => r.brand = filters.brand
        /\ filters.size \notin {"", "all"} => r.size = filters.size
        /\ filters.retailer \notin {"", "all"} => r.retailer = filters.retailer}

\* C25: getAllDiapers(filters) returns exactly the stored rows that are in
\* stock and equal every filter that is given and is not "all"; no row with
\* in_stock false is returned.
C25_ExactFilter ==
    lastCall.op = "getAllDiapers" =>
        /\ Range(lastCall.arg.results) =
              {[id |-> r.id, brand |-> r.brand, type |-> r.type, size |-> r.size,
                count |-> r.count, retailer |-> r.retailer, price |-> r.price,
                price_per_diaper |-> r.price_per_diaper, url |-> r.url,
                in_stock |-> TRUE, updated_at |-> r.updated_at,
                last_scraped |-> r.last_scraped] : r \in Wanted(lastCall.arg.filters)}
        /\ Len(lastCall.arg.results) = Cardinality(Wanted(lastCall.arg.filters))

\* A query for a brand and a retailer after an upsert took a row of that brand
\* and retailer out of stock: it returned other rows and not that one.
C25_Witness ==
    /\ lastCall.op = "getAllDiapers"
    /\ lastCall.arg.filters.brand = Pampers
    /\ lastCall.arg.filters.retailer = "Amazon.ca"
    /\ lastCall.arg.results # <<>>
    /\ \E x \in Range(diapers) :
          /\ ~x.in_stock
          /\ x.brand = Pampers
          /\ x.retailer = "Amazon.ca"
          /\ \A r \in Range(lastCall.arg.results) : r.id # x.id

\* The results are in the order of the column, upwards or downwards.
InOrder(results, column, up) ==
    \A i \in 1..(Len(results) - 1) :
        IF up THEN ~ColumnLess(column, results[i + 1][column], results[i][column])
        ELSE ~ColumnLess(column, results[i][column], results[i + 1][column])

\* C26: the rows getAllDiapers returns are in ascending order of
\* price_per_diaper when no sort is given or the sortBy is not a known one, and
\* for a known sortBy with sortOrder asc or desc in that order of its column.
C26_Ordered ==
    lastCall.op = "getAllDiapers" =>
        LET f == lastCall.arg.filters
            results == lastCall.arg.results
        IN  /\ f.sortBy = "" /\ f.sortOrder = "" => InOrder(results, "price_per_diaper", TRUE)
            /\ f.sortBy \notin {"", "pricePerDiaper", "price", "brand", "updated"} =>
                  InOrder(results, "price_per_diaper", TRUE)
            /\ f.sortOrder \in {"asc", "desc"} =>
                  /\ f.sortBy = "pricePerDiaper" =>
                        InOrder(results, "price_per_diaper", f.sortOrder = "asc")
                  /\ f.sortBy = "price" => InOrder(results, "price", f.sortOrder = "asc")
                  /\ f.sortBy = "brand" => InOrder(results, "brand", f.sortOrder = "asc")
                  /\ f.sortBy = "updated" => InOrder(results, "updated_at", f.sortOrder = "asc")

\* A query sorted by price, descending, returned rows of different prices.
C26_Witness ==
    /\ lastCall.op = "getAllDiapers"
    /\ lastCall.arg.filters.sortBy = "price"
    /\ lastCall.arg.filters.sortOrder = "desc"
    /\ Len(lastCall.arg.results) >= 2
    /\ lastCall.arg.results[1].price > lastCall.arg.results[Len(lastCall.arg.results)].price

\* A step in which an upsertDiaper call for listing d succeeded, made by a
\* caller or by the loop of batchUpsertDiapers.
UpsertDone(d) ==
    \/ /\ calls' = calls + 1
       /\ lastCall'.op = "upsertDiaper"
       /\ lastCall'.ok
       /\ lastCall'.arg = d
    \/ /\ batch.pc = "running"
       /\ batch'.idx = batch.idx + 1
       /\ batch.data[batch.idx] = d

Stored(tbl, d) == \E i \in DOMAIN tbl : KeyOf(tbl[i]) = KeyOf(d)

RowFor(tbl, d) == tbl[CHOOSE i \in DOMAIN tbl : KeyOf(tbl[i]) = KeyOf(d)]

\* Row r holds the values of listing d, as its columns store them.
Holds(r, d) ==
    /\ r.count = d.count
    /\ r.price = Numeric(d.price, PriceScale)
    /\ r.price_per_diaper = Numeric(d.pricePerDiaper, PerDiaperScale)
    /\ r.url = d.url
    /\ r.in_stock = d.inStock

\* The table without the two timestamps every upsert sets.
Untimed(tbl) ==
    [i \in DOMAIN tbl |-> [tbl[i] EXCEPT !.updated_at = 0, !.last_scraped = 0]]

OneRowPerKey ==
    \A i, j \in DOMAIN diapers : KeyOf(diapers[i]) = KeyOf(diapers[j]) => i = j

\* C3: the diapers table never holds two rows with the same (brand, type,
\* size, retailer); an upsert of a stored key leaves the number of rows
\* unchanged, after any upsert the row of the key holds the upserted values, and
\* upserting the values a row already holds changes nothing in the table but
\* that row's updated_at and last_scraped.
C3_UpsertInPlace ==
    /\ []OneRowPerKey
    /\ [][\A d \in Listings :
            UpsertDone(d) =>
                /\ Stored(diapers, d) => Len(diapers') = Len(diapers)
                /\ Holds(RowFor(diapers', d), d)
                /\ Stored(diapers, d) /\ Holds(RowFor(diapers, d), d) =>
                      Untimed(diapers') = Untimed(diapers)]_vars

\* The same with the table wholly unchanged by the second application.
C3_SameStore ==
    /\ []OneRowPerKey
    /\ [][\A d \in Listings :
            UpsertDone(d) =>
                /\ Stored(diapers, d) => Len(diapers') = Len(diapers)
                /\ Holds(RowFor(diapers', d), d)
                /\ Stored(diapers, d) /\ Holds(RowFor(diapers, d), d) =>
                      diapers' = diapers]_vars

\* A second upsert of a stored key succeeded, later than the row was created:
\* no row was added and the row holds the listing's values.
C3_Witness ==
    /\ calls = 2
    /\ lastCall.op = "upsertDiaper"
    /\ lastCall.ok
    /\ Len(diapers) = Len(SeedRows)
    /\ Holds(RowFor(diapers, lastCall.arg), lastCall.arg)
    /\ RowFor(diapers, lastCall.arg).updated_at > RowFor(diapers, lastCall.arg).created_at

\* The columns an upsert of a stored key may change.
Mutable == {"count", "price", "price_per_diaper", "url", "in_stock", "updated_at",
            "last_scraped"}

\* C27: a successful upsert of a stored key changes nothing but the mutable
\* columns of the row of that key (its id, created_at and key stay) and no
\* other row or table; one of a new key only appends one row.
C27_UpsertFrame ==
    [][\A d \in Listings :
          UpsertDone(d) =>
              /\ price_history' = price_history
              /\ scraping_logs' = scraping_logs
              /\ IF Stored(diapers, d)
                 THEN /\ DOMAIN diapers' = DOMAIN diapers
                      /\ \A i \in DOMAIN diapers :
                            IF KeyOf(diapers[i]) = KeyOf(d)
                            THEN \A c \in DOMAIN diapers[i] \ Mutable :
                                    diapers'[i][c] = diapers[i][c]
                            ELSE diapers'[i] = diapers[i]
                 ELSE /\ Len(diapers') = Len(diapers) + 1
                      /\ SubSeq(diapers', 1, Len(diapers)) = diapers]_vars

\* A later upsert of the key of the first seed row changed its count and took
\* it out of stock; the row kept its id and created_at, and the other rows
\* are the seed rows.
C27_Witness ==
    /\ lastCall.op = "upsertDiaper"
    /\ lastCall.ok
    /\ now > StartTime
    /\ diapers[1].count # SeedRows[1].count
    /\ ~diapers[1].in_stock
    /\ diapers[1].updated_at > diapers[1].created_at
    /\ diapers[1].id = SeedRows[1].id
    /\ Tail(diapers) = Tail(SeedRows)

\* C28: however the upserts of a batchUpsertDiapers call and other
\* upsertDiaper calls interleave, a row changes only by an upsert of its own
\* key, after an upsert the row of its key holds that call's values (the last
\* writer wins), and every row is a seed row or holds the values of one call,
\* never a mix of two.
C28_LastWriterWins ==
    /\ [](\A i \in DOMAIN diapers :
             \/ i \in DOMAIN SeedRows /\ diapers[i] = SeedRows[i]
             \/ \E d \in Listings : KeyOf(d) = KeyOf(diapers[i]) /\ Holds(diapers[i], d))
    /\ [][/\ \A i \in DOMAIN diapers :
                diapers'[i] # diapers[i] =>
                    \E d \in Listings : UpsertDone(d) /\ KeyOf(d) = KeyOf(diapers[i])
          /\ \A d \in Listings : UpsertDone(d) => Holds(RowFor(diapers', d), d)]_vars

\* Between two upserts of a batch another call upserted the key of the
\* batch's first listing with other values, and the row holds the values of
\* that later call.
C28_Witness ==
    /\ batch.pc = "running"
    /\ batch.idx = 2
    /\ lastCall.op = "upsertDiaper"
    /\ lastCall.ok
    /\ KeyOf(lastCall.arg) = KeyOf(batch.data[1])
    /\ ~Holds(RowFor(diapers, lastCall.arg), batch.data[1])
    /\ Holds(RowFor(diapers, lastCall.arg), lastCall.arg)

\* A step in which a caller's recordPriceHistory call ended.
RecordDone == calls' = calls + 1 /\ lastCall'.op = "recordPriceHistory"

\* C5: every recordPriceHistory call that succeeds appends exactly one row to
\* price_history, with the values it was given, whatever rows are there
\* already; a call that fails and every other step leave price_history as it
\* is, so no written row is ever modified or removed.
C5_HistoryAppends ==
    [][IF RecordDone /\ lastCall'.ok
       THEN price_history' =
                Append(price_history,
                       HistoryRow(Len(price_history) + 1, lastCall'.arg.diaperId,
                                  lastCall'.arg.price, lastCall'.arg.pricePerDiaper,
                                  lastCall'.arg.inStock, now))
       ELSE price_history' = price_history]_vars

\* Two calls with the same values for the same listing left two rows.
C5_Witness ==
    /\ calls = 2
    /\ Len(price_history) = 2
    /\ price_history[1].diaper_id = price_history[2].diaper_id
    /\ price_history[1].price = price_history[2].price
    /\ price_history[1].price_per_diaper = price_history[2].price_per_diaper

\* How many listings of its input a batch has passed to upsertDiaper.
Attempted(b) == IF b.pc = "rejected" THEN b.idx ELSE b.idx - 1

\* C6: when batchUpsertDiapers has ended, by resolving or by rejecting, every
\* listing of its input has been passed to upsertDiaper.
C6_BatchAttemptsAll ==
    batch.pc \in {"resolved", "rejected"} => Attempted(batch) = Len(batch.data)

(***************************************************************************)
(* Properties of the get-diapers function                                  *)
(***************************************************************************)
\* The price_history rows of the diapers row with this id.
HistoryOf(id) == SelectSeq(price_history, LAMBDA h : h.diaper_id = id)

C7_AnswersFromStore ==
    req.pc = "done" /\ req.error # "read" =>
        /\ req.statusCode = 200
        /\ req.body = transformedDiapers(getAllDiapers(DefaultFilters, FALSE).rows)

\* C8: with the Amazon scraper loaded, a request starts a scraping run exactly
\* when no scraping run logged as successful has ended within the last
\* SCRAPING_INTERVAL.
C8_ScrapesIffStale ==
    amazonScraper /\ req.pc # "idle" => (req.shouldScrape <=> req.stale)

\* C9: every listing runScheduledScraping passes to batchUpsertDiapers and
\* every row of the diapers table has a count above 0.
C9_CountPositive ==
    /\ \A i \in DOMAIN req.diaperData : req.diaperData[i].count > 0
    /\ \A i \in DOMAIN batch.data : batch.data[i].count > 0
    /\ \A i \in DOMAIN diapers : diapers[i].count > 0

\* A run whose scraper returned two products dropped the one whose name gives
\* no count and stored the other.
C9_Witness ==
    /\ req.pc = "done"
    /\ Len(req.liveData) = 2
    /\ Len(req.diaperData) = 1
    /\ \E i \in DOMAIN req.liveData : Skipped(extractCount(req.liveData[i].name))
    /\ Stored(diapers, req.diaperData[1])
    /\ RowFor(diapers, req.diaperData[1]).count = req.diaperData[1].count

\* The title of the search result a listing of the Amazon adapter was built
\* from.
TitleOf(item) == (CHOOSE o \in Offers : o[1] = item.id)[3]

\* C32: once the Amazon adapter has returned its listings to
\* runScheduledScraping, every listing whose product title yields a count is
\* among the listings transformed for batchUpsertDiapers.
C32_CountedListingsUpserted ==
    \A i \in DOMAIN req.liveData :
        ~Skipped(extractCount(TitleOf(req.liveData[i]))) =>
            \E j \in DOMAIN req.diaperData :
                /\ req.diaperData[j].brand = req.liveData[i].brand
                /\ req.diaperData[j].url = req.liveData[i].url

\* C33: at no time are two scheduled scraping runs in progress: an invocation
\* that arrives while a run is in progress does not start a second one.
C33_OneRunAtATime ==
    Cardinality({h \in 1..MaxHandlers : handlers.inv[h].pc = "scraping"}) <= 1

\* An updateCache call ends in this step with this outcome of its job.
Ends(k, outcomes) ==
    /\ cache.calls[k].pc = "job"
    /\ cache'.calls[k].pc = "done"
    /\ cache'.calls[k].outcome \in outcomes

\* C34: no step replaces a non-empty cachedDiapers by an empty list; an
\* updateCache call whose job resolved with no products, or rejected while
\* the cache had content, leaves cachedDiapers and lastCacheUpdate as they
\* were; and lastCacheUpdate changes only in a step that changes
\* cachedDiapers.
C34_CacheKept ==
    [][/\ cache.cachedDiapers # <<>> => cache'.cachedDiapers # <<>>
       /\ \A k \in 1..MaxUpdates :
             \/ Ends(k, {"empty"})
             \/ Ends(k, {"rejected"}) /\ cache.cachedDiapers # <<>>
             => /\ cache'.cachedDiapers = cache.cachedDiapers
                /\ cache'.lastCacheUpdate = cache.lastCacheUpdate
       /\ cache'.lastCacheUpdate # cache.lastCacheUpdate =>
             cache'.cachedDiapers # cache.cachedDiapers]_vars

\* The cache holds products of an earlier refresh after a later updateCache
\* call ended whose job gave no products or rejected.
C34_Witness ==
    /\ cache.cachedDiapers # <<>>
    /\ cache.lastCacheUpdate # Null
    /\ \E k \in 1..MaxUpdates :
          /\ cache.calls[k].outcome \in {"empty", "rejected"}
          /\ cache.calls[k].settledAt > cache.lastCacheUpdate

\* C35: with searchDiapers calls overlapping on one WellScraper, at most one
\* browser is open at any time, and the browser a call is using (it is about
\* to open a page on it or has a page open on it) is open.
C35_OneSharedBrowser ==
    /\ Cardinality(Live) <= 1
    /\ \A k \in 1..MaxWellCalls :
          well.calls[k].pc \in {"newPage", "page"} => well.calls[k].browser \in Live

\* C36: every page scrapeWithPuppeteer opened is closed exactly once by the
\* time scrapeWithPuppeteer returns.
C36_PageClosedOnce ==
    \A p \in DOMAIN well.pages : well.pages[p].returned => well.pages[p].closes = 1

\* C38: no step of the get-diapers function deletes a row of the diapers
\* table or changes its key; a row changes only in the upsert of a listing
\* with its key, so the row of a listing a later run does not return keeps
\* all its values; and price_history only grows at its end.
C38_NothingDeleted ==
    [][/\ \A i \in DOMAIN diapers :
             /\ i \in DOMAIN diapers'
             /\ KeyOf(diapers'[i]) = KeyOf(diapers[i])
             /\ diapers'[i] # diapers[i] =>
                   /\ batch.pc = "running"
                   /\ KeyOf(batch.data[batch.idx]) = KeyOf(diapers[i])
       /\ Len(price_history') >= Len(price_history)
       /\ SubSeq(price_history', 1, Len(price_history)) = price_history]_vars

\* Two runs have upserted their listings; a listing of the first run that the
\* second run did not return is still stored, in stock and at the first
\* run's price, last written before the second run.
C38_Witness ==
    /\ req.pc = "done"
    /\ Len(observed) = 2
    /\ \E i \in DOMAIN observed[1] :
          LET a == observed[1][i]
          IN  /\ \A j \in DOMAIN observed[2] : KeyOf(observed[2][j]) # KeyOf(a)
              /\ Stored(diapers, a)
              /\ RowFor(diapers, a).in_stock
              /\ RowFor(diapers, a).price = Numeric(a.price, PriceScale)
              /\ RowFor(diapers, a).updated_at < now

\* The scraping_logs row a step appends.
Logged == scraping_logs'[Len(scraping_logs')]

\* C39: a scraping run writes at most one scraping_logs row, as its last
\* write.  A row with success = true is written only when no upsert of the
\* run is outstanding or has failed, every listing of the run is stored with
\* its values, and products_found is their number; the row of a run in which
\* an upsert failed has success = false and carries the error.
C39_LogAfterUpserts ==
    [][scraping_logs' # scraping_logs =>
          /\ scraping_logs' = Append(scraping_logs, Logged)
          /\ req.pc \in {"log", "catch"}
          /\ req'.pc \in {"read", "done"}
          /\ Logged.success =>
                /\ req.pc = "log"
                /\ req.error = "none"
                /\ batch.pc = "idle"
                /\ Logged.products_found = Len(req.diaperData)
                /\ \A i \in DOMAIN req.diaperData :
                      /\ Stored(diapers, req.diaperData[i])
                      /\ Holds(RowFor(diapers, req.diaperData[i]), req.diaperData[i])
          /\ req.error = "upsert" =>
                /\ ~Logged.success
                /\ Logged.error_message = "upsert"]_vars

\* A run with two listings whose second upsert failed has logged its failure:
\* the last scraping_logs row has success = false and the error, and the first
\* listing is stored.
C39_Witness ==
    /\ req.pc \in {"read", "done"}
    /\ req.error = "upsert"
    /\ Len(req.diaperData) = 2
    /\ Stored(diapers, req.diaperData[1])
    /\ ~Stored(diapers, req.diaperData[2])
    /\ scraping_logs # <<>>
    /\ ~scraping_logs[Len(scraping_logs)].success
    /\ scraping_logs[Len(scraping_logs)].error_message = "upsert"

\* The most fetches a searchDiapers call with these params makes: one for
\* every variant (query and URL) of every combination of a brand and a size.
MostFetches(adapter, params) == Len(params.brands) * Len(params.sizes) * Variants(adapter)

\* C40: a searchDiapers call never makes more fetches than brands x sizes x
\* variants per combination, and when every fetch settles the call returns;
\* a runScrapingJob call returns when every searchDiapers promise settles.
C40_Terminates ==
    /\ [](search.adapter \in {"Amazon.ca", "Costco", "Superstore"} =>
             Len(search.fetched) <= MostFetches(search.adapter, search.params))
    /\ (search.pc \in {"fetch", "walmart"}) ~> (search.pc = "done")
    /\ (job.pc = "running") ~> (job.pc = "resolved")

\* A call whose every fetch failed has gone through all variants of all its
\* combinations and returned, and the job has returned after its scraper
\* settled.
C40_Witness ==
    /\ search.pc = "done"
    /\ search.adapter = "Costco"
    /\ Len(search.params.brands) * Len(search.params.sizes) = MaxCombos
    /\ Len(search.fetched) = MostFetches(search.adapter, search.params)
    /\ \A k \in DOMAIN search.fetched : search.fetched[k].kind = "fetch error"
    /\ job.pc = "resolved"
    /\ job.settled = <<1>>

\* C10: in every row of the diapers table price_per_diaper is price / count
\* rounded to 4 decimal places.
C10_PricePerDiaper ==
    \A i \in DOMAIN diapers :
        diapers[i].price_per_diaper =
            Numeric(Div(Frac(diapers[i].price, Pow10(PriceScale)), diapers[i].count),
                    PerDiaperScale)

=============================================================================
